---- MODULE Spec2Model ----
(***************************************************************************)
(* The tree-walking evaluator of ilo (src/ilo/interpreter/src/lib.rs).     *)
(*                                                                         *)
(* The evaluator is a set of mutually recursive functions over the AST;    *)
(* they are written here as recursive operators that thread an execution   *)
(* state `st` (the Environment, standard output, and the observation       *)
(* logs the properties read) and yield a Result.  One action of the        *)
(* specification is one iteration of the `for statement in statements`     *)
(* loop of Interpreter::interpret.                                         *)
(*                                                                         *)
(* Numbers are f64 in the program; the programs of this model only use     *)
(* integer-valued numbers, which +, -, * and the comparisons keep exact.   *)
(***************************************************************************)
EXTENDS Integers, Sequences, FiniteSets, TLC

(***************************************************************************)
(* Bounds of the model.                                                    *)
(***************************************************************************)
\* number of top-level statements of a program
MaxStatements == 2
\* user-function calls plus `while` iterations one top-level statement may take
MaxFuel == 6

(***************************************************************************)
(* enum Value.  One record shape for every variant; the fields a variant   *)
(* does not carry hold a fixed filler.  `body` of a Function is the index  *)
(* of its statement list in Bodies.                                        *)
(***************************************************************************)
MkValue(tag, boolean, number, string, name, args, body) ==
    [tag |-> tag, boolean |-> boolean, number |-> number, string |-> string,
     name |-> name, args |-> args, body |-> body]

Empty == MkValue("Empty", FALSE, 0, "", "", <<>>, 0)
EmptyBoolean == MkValue("EmptyBoolean", FALSE, 0, "", "", <<>>, 0)
Boolean(b) == MkValue("Boolean", b, 0, "", "", <<>>, 0)
EmptyNumber == MkValue("EmptyNumber", FALSE, 0, "", "", <<>>, 0)
Number(n) == MkValue("Number", FALSE, n, "", "", <<>>, 0)
String(s) == MkValue("String", FALSE, 0, s, "", <<>>, 0)
Function(name, args, body) == MkValue("Function", FALSE, 0, "", name, args, body)
NativeFunction(name, args) == MkValue("NativeFunction", FALSE, 0, "", name, args, 0)

\* the value a panicking helper (unreachable!) stands for
Unreachable == MkValue("unreachable!", FALSE, 0, "", "", <<>>, 0)

IsFunction(v) == v.tag \in {"Function", "NativeFunction"}

\* get_type with one type for all functions, whatever their arity
get_type_without_arity(v) ==
    CASE v.tag \in {"EmptyBoolean", "Boolean"} -> "boolean"
      [] v.tag \in {"EmptyNumber", "Number"} -> "number"
      [] v.tag = "String" -> "string"
      [] IsFunction(v) -> "function"
      [] OTHER -> "unreachable!"

\* Value::get_type
get_type(v) ==
    CASE v.tag \in {"EmptyBoolean", "Boolean"} -> "boolean"
      [] v.tag \in {"EmptyNumber", "Number"} -> "number"
      [] v.tag = "String" -> "string"
      [] IsFunction(v) -> "function(" \o ToString(Len(v.args)) \o ")"
      [] OTHER -> "unreachable!"

\* Value::as_empty
as_empty(v) ==
    CASE v.tag = "Boolean" -> EmptyBoolean
      [] v.tag = "Number" -> EmptyNumber
      [] OTHER -> Unreachable

\* impl Display for Value
Display(v) ==
    CASE v.tag = "Boolean" -> IF v.boolean THEN "true" ELSE "false"
      [] v.tag = "Number" -> ToString(v.number)
      [] v.tag = "String" -> v.string
      [] v.tag \in {"EmptyBoolean", "EmptyNumber", "Empty"} -> ""
      [] OTHER ->
           "f " \o v.name \o "(" \o ToString(Len(v.args)) \o " argument"
             \o (IF Len(v.args) = 1 THEN "" ELSE "s") \o ") {"
             \o (IF v.tag = "NativeFunction" THEN " [native code] " ELSE "") \o "}"

(***************************************************************************)
(* struct Scope, struct Environment.  A map is a function whose domain is  *)
(* the set of names it binds.                                              *)
(***************************************************************************)
EmptyMap == [k \in {} |-> Empty]

Insert(map, name, value) ==
    [k \in DOMAIN map \cup {name} |-> IF k = name THEN value ELSE map[k]]

\* Scope::new
NewScope(function) == [map |-> EmptyMap, function |-> function]

\* Environment::new
NewEnvironment == <<NewScope(FALSE)>>

\* Environment::enter_scope
enter_scope(scopes, function_scope) == Append(scopes, NewScope(function_scope))

\* leave_scope popping the frame beneath as well
leave_scope_twice(scopes) ==
    IF Len(scopes) < 2 THEN <<>> ELSE SubSeq(scopes, 1, Len(scopes) - 2)

\* Environment::leave_scope (Vec::pop of an empty vector does nothing)
leave_scope(scopes) ==
    IF scopes = <<>> THEN scopes ELSE SubSeq(scopes, 1, Len(scopes) - 1)

\* the frames, topmost first, that bind `name`
Binders(scopes, name) == {i \in 1..Len(scopes) : name \in DOMAIN scopes[i].map}

Max(S) == CHOOSE x \in S : \A y \in S : y <= x

\* Environment::get; None is the empty sequence, Some(v) is <<v>>
get(scopes, name) ==
    IF Binders(scopes, name) = {} THEN <<>>
    ELSE <<scopes[Max(Binders(scopes, name))].map[name]>>


\* enum EnvError is the `res` of the record define_or_assign yields: "Ok",
\* "InvalidType" (with current_value), "EmptyDeclarationNoType", or "Panic"
\* where the code runs into unreachable!
EnvResult(scopes, res, current_value) ==
    [scopes |-> scopes, res |-> res, current_value |-> current_value]

\* define_or_assign writing a found name into the top frame instead of the
\* frame that holds it
define_or_assign_in_top_frame(scopes, name, value, function_arg) ==
    LET found == IF function_arg THEN {} ELSE Binders(scopes, name)
    IN  IF found # {}
        THEN LET current_value == scopes[Max(found)].map[name]
                 new_value == IF value.tag = "Empty" THEN as_empty(current_value)
                              ELSE value
             IN  IF new_value = Unreachable
                 THEN EnvResult(scopes, "Panic", current_value)
                 ELSE IF get_type(current_value) = get_type(new_value)
                 THEN EnvResult([scopes EXCEPT ![Len(scopes)].map =
                                   Insert(@, name, new_value)],
                                "Ok", current_value)
                 ELSE EnvResult(scopes, "InvalidType", current_value)
        ELSE IF value.tag = "Empty"
        THEN EnvResult(scopes, "EmptyDeclarationNoType", Empty)
        ELSE IF scopes = <<>>
        THEN EnvResult(scopes, "Panic", Empty)
        ELSE EnvResult([scopes EXCEPT ![Len(scopes)].map = Insert(@, name, value)],
                       "Ok", Empty)

\* define_or_assign creating a binding in the top frame when the name is bound
\* in a frame below it to a value of another type
define_or_assign_shadowing(scopes, name, value, function_arg) ==
    LET found == IF function_arg THEN {} ELSE Binders(scopes, name)
    IN  IF found # {}
        THEN LET i == Max(found)
                 current_value == scopes[i].map[name]
                 new_value == IF value.tag = "Empty" THEN as_empty(current_value)
                              ELSE value
             IN  IF new_value = Unreachable
                 THEN EnvResult(scopes, "Panic", current_value)
                 ELSE IF get_type(current_value) = get_type(new_value)
                 THEN EnvResult([scopes EXCEPT ![i].map = Insert(@, name, new_value)],
                                "Ok", current_value)
                 ELSE IF i < Len(scopes)
                 THEN EnvResult([scopes EXCEPT ![Len(scopes)].map =
                                   Insert(@, name, new_value)],
                                "Ok", current_value)
                 ELSE EnvResult(scopes, "InvalidType", current_value)
        ELSE IF value.tag = "Empty"
        THEN EnvResult(scopes, "EmptyDeclarationNoType", Empty)
        ELSE IF scopes = <<>>
        THEN EnvResult(scopes, "Panic", Empty)
        ELSE EnvResult([scopes EXCEPT ![Len(scopes)].map = Insert(@, name, value)],
                       "Ok", Empty)

\* define_or_assign without the refusal of untyped Empty as the value of a
\* new name
define_or_assign_storing_empty(scopes, name, value, function_arg) ==
    LET found == IF function_arg THEN {} ELSE Binders(scopes, name)
    IN  IF found # {}
        THEN LET i == Max(found)
                 current_value == scopes[i].map[name]
                 new_value == IF value.tag = "Empty" THEN as_empty(current_value)
                              ELSE value
             IN  IF new_value = Unreachable
                 THEN EnvResult(scopes, "Panic", current_value)
                 ELSE IF get_type(current_value) = get_type(new_value)
                 THEN EnvResult([scopes EXCEPT ![i].map = Insert(@, name, new_value)],
                                "Ok", current_value)
                 ELSE EnvResult(scopes, "InvalidType", current_value)
        ELSE IF scopes = <<>>
        THEN EnvResult(scopes, "Panic", Empty)
        ELSE EnvResult([scopes EXCEPT ![Len(scopes)].map = Insert(@, name, value)],
                       "Ok", Empty)

\* define_or_assign without the comparison of the types
define_or_assign_unchecked(scopes, name, value, function_arg) ==
    LET found == IF function_arg THEN {} ELSE Binders(scopes, name)
    IN  IF found # {}
        THEN LET i == Max(found)
                 current_value == scopes[i].map[name]
                 new_value == IF value.tag = "Empty" THEN as_empty(current_value)
                              ELSE value
             IN  IF new_value = Unreachable
                 THEN EnvResult(scopes, "Panic", current_value)
                 ELSE EnvResult([scopes EXCEPT ![i].map = Insert(@, name, new_value)],
                                "Ok", current_value)
        ELSE IF value.tag = "Empty"
        THEN EnvResult(scopes, "EmptyDeclarationNoType", Empty)
        ELSE IF scopes = <<>>
        THEN EnvResult(scopes, "Panic", Empty)
        ELSE EnvResult([scopes EXCEPT ![Len(scopes)].map = Insert(@, name, value)],
                       "Ok", Empty)

\* Environment::define_or_assign
define_or_assign(scopes, name, value, function_arg) ==
    LET found == IF function_arg THEN {} ELSE Binders(scopes, name)
    IN  IF found # {}
        THEN LET i == Max(found)
                 current_value == scopes[i].map[name]
                 new_value == IF value.tag = "Empty" THEN as_empty(current_value)
                              ELSE value
             IN  IF new_value = Unreachable
                 THEN EnvResult(scopes, "Panic", current_value)
                 ELSE IF get_type(current_value) = get_type(new_value)
                 THEN EnvResult([scopes EXCEPT ![i].map = Insert(@, name, new_value)],
                                "Ok", current_value)
                 ELSE EnvResult(scopes, "InvalidType", current_value)
        ELSE IF value.tag = "Empty"
        THEN EnvResult(scopes, "EmptyDeclarationNoType", Empty)
        ELSE IF scopes = <<>>
        THEN EnvResult(scopes, "Panic", Empty)
        ELSE EnvResult([scopes EXCEPT ![Len(scopes)].map = Insert(@, name, value)],
                       "Ok", Empty)

\* Environment::define_native_function
define_native_function(scopes, name, args) ==
    define_or_assign(scopes, name, NativeFunction(name, args), TRUE).scopes

\* Interpreter::new: the environment with the five native functions
NewInterpreter ==
    LET e0 == NewEnvironment
        e1 == define_native_function(e0, "out", <<"">>)
        e2 == define_native_function(e1, "ask", <<"">>)
        e3 == define_native_function(e2, "size", <<"">>)
        e4 == define_native_function(e3, "time", <<>>)
    IN  define_native_function(e4, "cmd", <<"">>)

(***************************************************************************)
(* The AST (src/ilo/parser/src/lib.rs, enum Expr and enum Statement, with  *)
(* the Return statement the evaluator matches on).  A Token is its         *)
(* token_type and lexeme; line and column only place diagnostics.          *)
(***************************************************************************)
Token(token_type, number, lexeme) ==
    [token_type |-> token_type, number |-> number, lexeme |-> lexeme]

Primary(value) == [kind |-> "Primary", value |-> value]
Unary(operator, expr) == [kind |-> "Unary", operator |-> operator, expr |-> expr]
Binary(left_expr, operator, right_expr) ==
    [kind |-> "Binary", left_expr |-> left_expr, operator |-> operator,
     right_expr |-> right_expr]
Grouping(expr) == [kind |-> "Grouping", expr |-> expr]
Variable(name) == [kind |-> "Variable", name |-> name]
Call(callee, arguments) ==
    [kind |-> "Call", callee |-> callee, arguments |-> arguments]

ExprStatement(expr) == [kind |-> "Expr", expr |-> expr]
Assignment(ident, value) == [kind |-> "Assignment", ident |-> ident, value |-> value]
Block(statements) == [kind |-> "Block", statements |-> statements]
\* otherwise: Option<Box<Statement>> is <<>> or <<statement>>
If(condition, then, otherwise) ==
    [kind |-> "If", condition |-> condition, then |-> then, otherwise |-> otherwise]
While(condition, body) == [kind |-> "While", condition |-> condition, body |-> body]
\* body is the index in Bodies of the statement list
FunctionDeclaration(ident, params, body) ==
    [kind |-> "FunctionDeclaration", ident |-> ident, params |-> params, body |-> body]
Return(expr) == [kind |-> "Return", expr |-> expr]

\* literals and operators as the parser builds them
True == Primary(Token("True", 0, "true"))
False == Primary(Token("False", 0, "false"))
Num(n) == Primary(Token("NumberLiteral", n, ToString(n)))
Str(s) == Primary(Token("StringLiteral", 0, s))
EmptyLiteral == Primary(Token("Empty", 0, "empty"))
EmptyOf(type) == Primary(Token(type, 0, IF type = "Boolean" THEN "boolean" ELSE "number"))
Op(token_type) == Token(token_type, 0, token_type)

(***************************************************************************)
(* Result<Value, ErrorOrReturn> together with the state the call leaves.   *)
(* res: "Ok", "Error", "Return" (the two ErrorOrReturn alternatives),      *)
(* "Panic" (unwrap of Err, unreachable!), and two outcomes that only bound *)
(* the model: "OutOfFuel" and "Unmodelled" (a number that is not an        *)
(* integer).                                                               *)
(***************************************************************************)
Result(st, res, value) == [st |-> st, res |-> res, value |-> value]

Ok(st, value) == Result(st, "Ok", value)
Error(st) == Result(st, "Error", Empty)
Panic(st) == Result(st, "Panic", Empty)

\* error_manager::report_error: one line on standard output (the messages are
\* the program's, with ' where the program writes a backquote)
report_error(st, error_type, message) ==
    [st EXCEPT !.stdout = Append(@, [error_type |-> error_type, message |-> message])]

\* println! of a native function
println(st, text) ==
    [st EXCEPT !.stdout = Append(@, [error_type |-> "", message |-> text])]

\* Interpreter::report_runtime_error
report_runtime_error(st, message) == Error(report_error(st, "Runtime error", message))

\* Interpreter::report_type_error
report_type_error(st, message) == Error(report_error(st, "Type error", message))

(***************************************************************************)
(* The execution state threaded through the evaluator.                     *)
(*   scopes, stdout      Interpreter.environment.scopes, standard output   *)
(*   clock, host         what the host answers to time(), ask() and cmd()  *)
(*   fuel                bound of the model on calls and loop iterations   *)
(* and the observations the properties read, none of which the evaluator   *)
(* consults:                                                               *)
(*   active   one entry per user-function call in progress: whether a      *)
(*            `return` of its body has executed, and with which value      *)
(*   late     a statement was executed in a call whose `return` had        *)
(*            already executed                                             *)
(*   entered  number of user-function bodies entered                       *)
(*   calls, assigns, blocks, returns, arities                              *)
(*            a record per completed call, per define_or_assign, per       *)
(*            finished block, per `return` statement, per arity mismatch   *)
(***************************************************************************)
NewState(scopes, stdout, clock, host) ==
    [scopes |-> scopes, stdout |-> stdout, clock |-> clock, host |-> host,
     fuel |-> MaxFuel, active |-> <<>>, late |-> FALSE, entered |-> 0,
     calls |-> <<>>, assigns |-> <<>>, blocks |-> <<>>, returns |-> <<>>,
     arities |-> <<>>]

\* a statement is about to execute: note it if the innermost call in progress
\* has already executed its `return`
Visit(st) ==
    [st EXCEPT !.late = @ \/ (st.active # <<>> /\ st.active[Len(st.active)].returned)]

\* define_or_assign on the environment of st, with its record in st.assigns
Assign(st, name, value, function_arg, by) ==
    LET r == define_or_assign(st.scopes, name, value, function_arg)
    IN  [st |-> [st EXCEPT !.scopes = r.scopes,
                          !.assigns = Append(@, [name |-> name, value |-> value,
                                                 function_arg |-> function_arg,
                                                 by |-> by, before |-> st.scopes,
                                                 after |-> r.scopes, res |-> r.res])],
         res |-> r.res, current_value |-> r.current_value]

(***************************************************************************)
(* The bodies of the native functions (closures of Interpreter::new).      *)
(***************************************************************************)
native_body(name, args, st) ==
    CASE name = "out" -> Ok(println(st, Display(args[1])), Empty)
      [] name = "ask" ->
           IF args[1].tag = "String"
           THEN Ok(st, String(st.host.input))
           ELSE Ok(println(st, "error: 'ask' can only take a string as argument"),
                   String(""))
      [] name = "size" ->
           IF args[1].tag = "String"
           THEN Ok(st, Number(Len(args[1].string)))
           ELSE Ok(println(st, "error: 'size' can only take a string as argument"),
                   Number(0))
      [] name = "time" -> Ok([st EXCEPT !.clock = @ + 1], Number(st.clock))
      [] name = "cmd" ->
           IF args[1].tag = "String"
           THEN IF args[1].string = "" THEN Ok(st, String(""))
                ELSE Ok(st, String(st.host.output))
           ELSE Ok(println(st, "error: 'cmd' can only take a string as argument"),
                   String(""))
      [] OTHER -> Panic(st)

(***************************************************************************)
(* Expressions whose operands are already values.                          *)
(***************************************************************************)
\* Interpreter::evaluate_primary
evaluate_primary(value, st) ==
    CASE value.token_type = "True" -> Ok(st, Boolean(TRUE))
      [] value.token_type = "False" -> Ok(st, Boolean(FALSE))
      [] value.token_type = "NumberLiteral" -> Ok(st, Number(value.number))
      [] value.token_type = "StringLiteral" -> Ok(st, String(value.lexeme))
      [] value.token_type = "Boolean" -> Ok(st, EmptyBoolean)
      [] value.token_type = "Number" -> Ok(st, EmptyNumber)
      [] value.token_type = "Empty" -> Ok(st, Empty)
      [] OTHER -> Panic(st)

\* Interpreter::evaluate_variable
evaluate_variable(name, st) ==
    IF get(st.scopes, name) # <<>>
    THEN Ok(st, get(st.scopes, name)[1])
    ELSE report_runtime_error(st, "Undefined symbol '" \o name \o "'")

\* equality as the derived PartialEq of Value gives it
Equality_derived(left_value, right_value) == left_value = right_value

\* the `equality` of Interpreter::evaluate_equality
Equality(left_value, right_value) ==
    CASE left_value.tag = "Boolean" ->
           right_value.tag = "Boolean" /\ left_value.boolean = right_value.boolean
      [] left_value.tag = "Number" ->
           right_value.tag = "Number" /\ left_value.number = right_value.number
      [] left_value.tag = "String" ->
           right_value.tag = "String" /\ left_value.string = right_value.string
      [] left_value.tag = "EmptyBoolean" -> right_value.tag \in {"EmptyBoolean", "Empty"}
      [] left_value.tag = "EmptyNumber" -> right_value.tag \in {"EmptyNumber", "Empty"}
      [] left_value.tag = "Empty" ->
           right_value.tag \in {"EmptyBoolean", "EmptyNumber", "Empty"}
      [] OTHER -> IsFunction(right_value) /\ left_value.name = right_value.name

\* Interpreter::evaluate_equality
evaluate_equality(left_value, operator, right_value, st) ==
    Ok(st, Boolean(IF operator.token_type = "EqualEqual"
                   THEN Equality(left_value, right_value)
                   ELSE ~Equality(left_value, right_value)))

\* Interpreter::evaluate_comparison
evaluate_comparison(left_value, operator, right_value, st) ==
    IF left_value.tag = "Number" /\ right_value.tag = "Number"
    THEN CASE operator.token_type = "Greater" ->
                Ok(st, Boolean(left_value.number > right_value.number))
           [] operator.token_type = "GreaterEqual" ->
                Ok(st, Boolean(left_value.number >= right_value.number))
           [] operator.token_type = "Less" ->
                Ok(st, Boolean(left_value.number < right_value.number))
           [] operator.token_type = "LessEqual" ->
                Ok(st, Boolean(left_value.number <= right_value.number))
           [] OTHER -> Panic(st)
    ELSE report_type_error(st,
           "Comparison can only be performed between two numbers (found '"
             \o Display(left_value) \o "' and '" \o Display(right_value) \o "')")

RECURSIVE Repeat(_, _)
Repeat(string, n) == IF n <= 0 THEN "" ELSE string \o Repeat(string, n - 1)

OperationName(token_type) ==
    CASE token_type = "Plus" -> "Addition"
      [] token_type = "Minus" -> "Substraction"
      [] token_type = "Star" -> "Multiplication"
      [] token_type = "Slash" -> "Division"
      [] token_type = "Percent" -> "Modulo"
      [] OTHER -> "Exponentiation"

\* Interpreter::evaluate_math_operation; `/`, `^` and `%` by zero or by a
\* negative number leave the integers and are "Unmodelled"
evaluate_math_operation(left_value, operator, right_value, st) ==
    LET error ==
          report_type_error(st,
            OperationName(operator.token_type) \o " ('" \o operator.lexeme
              \o "') can only be performed between two numbers"
              \o (IF operator.token_type = "Plus" THEN " or two strings"
                  ELSE IF operator.token_type = "Star" THEN " or a string and a number"
                  ELSE "")
              \o " (found '" \o Display(left_value) \o "' and '"
              \o Display(right_value) \o "')")
    IN  CASE left_value.tag = "Number" /\ right_value.tag = "Number" ->
               (CASE operator.token_type = "Plus" ->
                       Ok(st, Number(left_value.number + right_value.number))
                  [] operator.token_type = "Minus" ->
                       Ok(st, Number(left_value.number - right_value.number))
                  [] operator.token_type = "Star" ->
                       Ok(st, Number(left_value.number * right_value.number))
                  [] operator.token_type = "Percent" /\ right_value.number > 0 ->
                       Ok(st, Number(left_value.number % right_value.number))
                  [] operator.token_type \in {"Slash", "Percent", "Caret"} ->
                       Result(st, "Unmodelled", Empty)
                  [] OTHER -> Panic(st))
          [] left_value.tag = "String" /\ right_value.tag = "String" ->
               IF operator.token_type = "Plus"
               THEN Ok(st, String(left_value.string \o right_value.string))
               ELSE report_runtime_error(st,
                      "Only addition ('+') can be used between two strings")
          [] left_value.tag = "String" /\ right_value.tag = "Number" ->
               IF operator.token_type = "Star"
               THEN IF right_value.number < 0
                    THEN report_runtime_error(st,
                           "Multiplication ('*') between a string and a number requires a positive integer (found '"
                             \o ToString(right_value.number) \o "')")
                    ELSE Ok(st, String(Repeat(left_value.string, right_value.number)))
               ELSE report_runtime_error(st,
                      "Only multiplication ('*') can be used between a string and a number")
          [] OTHER -> error

(***************************************************************************)
(* The statement lists of the user functions a program may declare, and    *)
(* the evaluator proper.                                                   *)
(***************************************************************************)
\* out(<expr>) as a statement
Out(expr) == ExprStatement(Call(Variable("out"), <<expr>>))

Bodies == <<
    \* 1: { n }
    <<ExprStatement(Variable("n"))>>,
    \* 2: { return n \n out("late") }
    <<Return(Variable("n")), Out(Str("late"))>>,
    \* 3: { if n > 1 { return n } \n out(n) }
    <<If(Binary(Variable("n"), Op("Greater"), Num(1)),
         Block(<<Return(Variable("n"))>>), <<>>),
      Out(Variable("n"))>>,
    \* 4: { while true { if true { return n } \n out("late") } \n out("late") }
    <<While(True, Block(<<If(True, Block(<<Return(Variable("n"))>>), <<>>),
                          Out(Str("late"))>>)),
      Out(Str("late"))>>,
    \* 5: { { b = 1 \n { { return b } } } }
    <<Block(<<Assignment("b", Num(1)),
              Block(<<Block(<<Return(Variable("b"))>>)>>)>>)>>,
    \* 6: { n = 9 \n a = n }
    <<Assignment("n", Num(9)), Assignment("a", Variable("n"))>>,
    \* 7: { if n > 1 { g(n - 1) } \n out(n) }
    <<If(Binary(Variable("n"), Op("Greater"), Num(1)),
         Block(<<ExprStatement(Call(Variable("g"),
                   <<Binary(Variable("n"), Op("Minus"), Num(1))>>))>>), <<>>),
      Out(Variable("n"))>>,
    \* 8: { return 1 }
    <<Return(Num(1))>>,
    \* 9: { { n + true } }
    <<Block(<<ExprStatement(Binary(Variable("n"), Op("Plus"), True))>>)>>,
    \* 10: { return b }
    <<Return(Variable("b"))>>
  >>

\* Interpreter::execute_function_declaration
execute_function_declaration(ident, params, body, st) ==
    LET r == Assign(st, ident, Function(ident, params, body), FALSE, "declaration")
    IN  CASE r.res = "Ok" -> Ok(r.st, Empty)
          [] r.res = "InvalidType" ->
               report_type_error(r.st,
                 "Identifier '" \o ident \o "' has already been declared")
          [] OTHER -> Panic(r.st)

(***************************************************************************)
(* The evaluator's functions call one another recursively.  Invoke(fn,     *)
(* args, st) is the call of the function named fn with the arguments args  *)
(* in state st; every function below is written with its own parameters    *)
(* and makes its calls through Invoke.                                     *)
(***************************************************************************)
RECURSIVE Invoke(_, _, _)

\* Interpreter::evaluate
evaluate(expr, st) ==
    CASE expr.kind = "Primary" -> evaluate_primary(expr.value, st)
      [] expr.kind = "Unary" ->
           Invoke("evaluate_unary", <<expr.operator, expr.expr>>, st)
      [] expr.kind = "Binary" ->
           Invoke("evaluate_binary",
                  <<expr.left_expr, expr.operator, expr.right_expr>>, st)
      [] expr.kind = "Grouping" -> Invoke("evaluate", <<expr.expr>>, st)
      [] expr.kind = "Variable" -> evaluate_variable(expr.name, st)
      [] expr.kind = "Call" ->
           Invoke("evaluate_call", <<expr.callee, expr.arguments>>, st)

\* Interpreter::evaluate_unary
evaluate_unary(operator, expr, st) ==
    LET r == Invoke("evaluate", <<expr>>, st)
    IN  IF r.res # "Ok" THEN r
        ELSE CASE operator.token_type = "Bang" ->
                    IF r.value.tag = "Boolean"
                    THEN Ok(r.st, Boolean(~r.value.boolean))
                    ELSE report_type_error(r.st,
                           "Unary not ('!') must be applied to a boolean (found '"
                             \o Display(r.value) \o "')")
               [] operator.token_type = "Minus" ->
                    IF r.value.tag = "Number"
                    THEN Ok(r.st, Number(0 - r.value.number))
                    ELSE report_type_error(r.st,
                           "Unary minus ('-') must be applied to a number (found '"
                             \o Display(r.value) \o "')")
               [] OTHER -> Panic(r.st)

\* Interpreter::evaluate_binary
evaluate_binary(left_expr, operator, right_expr, st) ==
    LET l == Invoke("evaluate", <<left_expr>>, st)
        r == Invoke("evaluate", <<right_expr>>, l.st)
    IN  IF l.res # "Ok" THEN l
        ELSE IF operator.token_type \in {"Or", "And"}
        THEN Invoke("evaluate_binary_logic", <<l.value, operator, right_expr>>, l.st)
        ELSE IF r.res # "Ok" THEN r
        ELSE CASE operator.token_type \in {"BangEqual", "EqualEqual"} ->
                    evaluate_equality(l.value, operator, r.value, r.st)
               [] operator.token_type \in
                    {"Greater", "GreaterEqual", "Less", "LessEqual"} ->
                    evaluate_comparison(l.value, operator, r.value, r.st)
               [] operator.token_type \in
                    {"Plus", "Minus", "Star", "Slash", "Percent", "Caret"} ->
                    evaluate_math_operation(l.value, operator, r.value, r.st)
               [] OTHER -> Panic(r.st)

\* evaluate_binary_logic evaluating its right operand before it looks at the
\* left one
evaluate_binary_logic_eager(left_value, operator, right_expr, st) ==
    LET r == Invoke("evaluate", <<right_expr>>, st)
    IN  CASE r.res # "Ok" -> r
          [] operator.token_type = "And" /\ left_value # Boolean(TRUE) ->
               Ok(r.st, Boolean(FALSE))
          [] operator.token_type = "Or" /\ left_value = Boolean(TRUE) ->
               Ok(r.st, left_value)
          [] operator.token_type \notin {"And", "Or"} -> Panic(st)
          [] OTHER ->
               IF r.value = Boolean(TRUE) THEN Ok(r.st, r.value)
               ELSE Ok(r.st, Boolean(FALSE))

\* Interpreter::evaluate_binary_logic
evaluate_binary_logic(left_value, operator, right_expr, st) ==
    LET r == Invoke("evaluate", <<right_expr>>, st)
    IN  CASE operator.token_type = "And" /\ left_value # Boolean(TRUE) ->
               Ok(st, Boolean(FALSE))
          [] operator.token_type = "Or" /\ left_value = Boolean(TRUE) ->
               Ok(st, left_value)
          [] operator.token_type \notin {"And", "Or"} -> Panic(st)
          [] OTHER ->
               IF r.res # "Ok" THEN r
               ELSE IF r.value = Boolean(TRUE) THEN Ok(r.st, r.value)
               ELSE Ok(r.st, Boolean(FALSE))

\* the `for argument in arguments` loop of evaluate_call, from argument i on:
\* the Result carries the argument values as a sequence
evaluate_arguments(arguments, i, arguments_values, st) ==
    LET r == Invoke("evaluate", <<arguments[i]>>, st)
    IN  IF i > Len(arguments) THEN Ok(st, arguments_values)
        ELSE IF r.res # "Ok" THEN r
        ELSE Invoke("evaluate_arguments",
                    <<arguments, i + 1, Append(arguments_values, r.value)>>, r.st)

\* the message of the arity error of evaluate_call
ArityMessage(args_length, provided_args_length) ==
    "Expected " \o ToString(args_length) \o " argument"
      \o (IF args_length = 1 THEN "" ELSE "s") \o ", but found "
      \o ToString(provided_args_length)

\* evaluate_call accepting a call with more arguments than parameters
evaluate_call_at_least(callee, arguments, st) ==
    LET c == Invoke("evaluate", <<callee>>, st)
        a == Invoke("evaluate_arguments", <<arguments, 1, <<>>>>, c.st)
        mismatch == report_type_error(a.st,
                      ArityMessage(Len(c.value.args), Len(a.value)))
    IN  IF c.res # "Ok" THEN c
        ELSE IF a.res # "Ok" THEN a
        ELSE IF ~IsFunction(c.value)
        THEN report_type_error(a.st, "Expression not callable")
        ELSE IF Len(c.value.args) <= Len(a.value)
        THEN Invoke("call", <<c.value, c.value.args, a.value>>, a.st)
        ELSE [mismatch EXCEPT !.st.arities =
                Append(@, [callee |-> c.value, found |-> Len(a.value),
                           before |-> a.st.scopes,
                           after |-> mismatch.st.scopes,
                           bodies |-> mismatch.st.entered - a.st.entered,
                           report |-> mismatch.st.stdout[Len(mismatch.st.stdout)],
                           res |-> mismatch.res])]

\* Interpreter::evaluate_call
evaluate_call(callee, arguments, st) ==
    LET c == Invoke("evaluate", <<callee>>, st)
        a == Invoke("evaluate_arguments", <<arguments, 1, <<>>>>, c.st)
        mismatch == report_type_error(a.st,
                      ArityMessage(Len(c.value.args), Len(a.value)))
    IN  IF c.res # "Ok" THEN c
        ELSE IF a.res # "Ok" THEN a
        ELSE IF ~IsFunction(c.value)
        THEN report_type_error(a.st, "Expression not callable")
        ELSE IF Len(c.value.args) = Len(a.value)
        THEN Invoke("call", <<c.value, c.value.args, a.value>>, a.st)
        ELSE [mismatch EXCEPT !.st.arities =
                Append(@, [callee |-> c.value, found |-> Len(a.value),
                           before |-> a.st.scopes,
                           after |-> mismatch.st.scopes,
                           bodies |-> mismatch.st.entered - a.st.entered,
                           report |-> mismatch.st.stdout[Len(mismatch.st.stdout)],
                           res |-> mismatch.res])]

\* the binding of the parameters done as an assignment that looks the name up
\* in the frames below (function_arg = false)
bind_arguments_as_assignment(arguments, arguments_values, i, st) ==
    LET r == Assign(st, arguments[i], arguments_values[i], FALSE, "argument")
    IN  IF i > Len(arguments) THEN Ok(st, Empty)
        ELSE IF r.res # "Ok" THEN Panic(r.st)
        ELSE Invoke("bind_arguments", <<arguments, arguments_values, i + 1>>, r.st)

\* the for_each of Value::call that binds the parameters, from parameter i on;
\* unwrap() panics on the first Err
bind_arguments(arguments, arguments_values, i, st) ==
    LET r == Assign(st, arguments[i], arguments_values[i], TRUE, "argument")
    IN  IF i > Len(arguments) THEN Ok(st, Empty)
        ELSE IF r.res # "Ok" THEN Panic(r.st)
        ELSE Invoke("bind_arguments", <<arguments, arguments_values, i + 1>>, r.st)

\* Value::call
call(callee, arguments, arguments_values, st) ==
    LET entered == [st EXCEPT !.scopes = enter_scope(@, TRUE),
                              !.fuel = @ - 1, !.entered = @ + 1]
        bound == Invoke("bind_arguments", <<arguments, arguments_values, 1>>, entered)
        started == [bound.st EXCEPT
                      !.active = Append(@, [returned |-> FALSE, value |-> Empty])]
        block_result == Invoke("execute_block", <<Bodies[callee.body], FALSE>>, started)
        return_value == IF block_result.res = "Return" THEN block_result.value
                        ELSE Empty
        left == leave_scope(block_result.st.scopes)
        mine == block_result.st.active[Len(block_result.st.active)]
    IN  CASE callee.tag = "Function" ->
               IF st.fuel = 0 THEN Result(st, "OutOfFuel", Empty)
               ELSE IF bound.res # "Ok" THEN bound
               ELSE IF block_result.res \notin {"Ok", "Return"} THEN block_result
               ELSE Ok([block_result.st EXCEPT
                          !.scopes = left,
                          !.active = SubSeq(@, 1, Len(@) - 1),
                          !.calls = Append(@, [name |-> callee.name,
                                               body |-> callee.body,
                                               arguments |-> arguments,
                                               values |-> arguments_values,
                                               before |-> st.scopes,
                                               bound |-> bound.st.scopes,
                                               after |-> left,
                                               returned |-> mine.returned,
                                               returning |-> mine.value,
                                               value |-> return_value])],
                       return_value)
          [] callee.tag = "NativeFunction" ->
               native_body(callee.name, arguments_values, st)
          [] OTHER -> Panic(st)

\* Interpreter::execute
execute(statement, st) ==
    CASE statement.kind = "Expr" -> Invoke("evaluate", <<statement.expr>>, Visit(st))
      [] statement.kind = "Assignment" ->
           Invoke("execute_assignment", <<statement.ident, statement.value>>, Visit(st))
      [] statement.kind = "Block" ->
           Invoke("execute_block", <<statement.statements, TRUE>>, Visit(st))
      [] statement.kind = "If" ->
           Invoke("execute_if",
                  <<statement.condition, statement.then, statement.otherwise>>,
                  Visit(st))
      [] statement.kind = "While" ->
           Invoke("execute_while", <<statement.condition, statement.body>>, Visit(st))
      [] statement.kind = "FunctionDeclaration" ->
           execute_function_declaration(statement.ident, statement.params,
                                        statement.body, Visit(st))
      [] statement.kind = "Return" ->
           Invoke("execute_return", <<statement.expr>>, Visit(st))

\* Interpreter::execute_assignment
execute_assignment(ident, value, st) ==
    LET v == Invoke("evaluate", <<value>>, st)
        r == Assign(v.st, ident, v.value, FALSE, "assignment")
    IN  CASE v.res # "Ok" -> v
          [] r.res = "Ok" -> Ok(r.st, Empty)
          [] r.res = "EmptyDeclarationNoType" ->
               report_runtime_error(r.st,
                 "Variable '" \o ident
                   \o "' cannot be initialized as 'empty', type must be specified")
          [] r.res = "InvalidType" ->
               report_type_error(r.st,
                 "Variable '" \o ident
                   \o "' already exists, but has a different type (tried to replace '"
                   \o Display(r.current_value) \o "' with '" \o Display(v.value) \o "')")
          [] OTHER -> Panic(r.st)

\* the `for statement in statements` loop of execute_block, from statement i
\* on.  "Break" is the loop left by `break` with result = Some(value); "Ok"
\* is the loop run to its end with result = None; any other res is an early
\* return out of execute_block.
execute_statements(statements, i, st) ==
    LET returned == Invoke("execute_return", <<statements[i].expr>>, Visit(st))
        executed == Invoke("execute", <<statements[i]>>, st)
    IN  IF i > Len(statements) THEN Ok(st, Empty)
        ELSE IF statements[i].kind = "Return"
        THEN CASE returned.res = "Ok" ->
                    Result(IF returned.st.active = <<>> THEN returned.st
                           ELSE [returned.st EXCEPT !.active[Len(returned.st.active)] =
                                   [returned |-> TRUE, value |-> returned.value]],
                           "Break", returned.value)
               [] returned.res \in {"Error", "Return"} -> Error(returned.st)
               [] OTHER -> returned
        ELSE IF executed.res # "Ok" THEN executed
        ELSE Invoke("execute_statements", <<statements, i + 1>>, executed.st)

\* execute_block dropping the `return` of its loop: it yields Ok where
\* execute_block yields Err(Return(result))
execute_block_without_return(statements, create_scope, st) ==
    LET entered == IF create_scope
                   THEN [st EXCEPT !.scopes =
                           enter_scope(@, st.scopes[Len(st.scopes)].function)]
                   ELSE st
        loop == Invoke("execute_statements", <<statements, 1>>, entered)
        left == IF create_scope
                THEN [loop.st EXCEPT !.scopes = leave_scope(@)]
                ELSE loop.st
    IN  CASE loop.res \in {"Ok", "Break"} -> Ok(left, Empty)
          [] OTHER -> loop

\* Interpreter::execute_block
execute_block(statements, create_scope, st) ==
    LET entered == IF create_scope
                   THEN [st EXCEPT !.scopes =
                           enter_scope(@, st.scopes[Len(st.scopes)].function)]
                   ELSE st
        loop == Invoke("execute_statements", <<statements, 1>>, entered)
        frame == Len(st.scopes) + 1
        left == IF create_scope
                THEN [loop.st EXCEPT
                        !.scopes = leave_scope(@),
                        !.blocks = Append(@, [frame |-> frame,
                                              names |-> DOMAIN loop.st.scopes[frame].map,
                                              after |-> leave_scope(loop.st.scopes)])]
                ELSE loop.st
    IN  CASE loop.res = "Ok" -> Ok(left, Empty)
          [] loop.res = "Break" -> Result(left, "Return", loop.value)
          [] OTHER -> loop

\* execute_if taking every condition that is not Boolean(true) for false
execute_if_lenient(condition, then, otherwise, st) ==
    LET c == Invoke("evaluate", <<condition>>, st)
        branch == CASE c.value = Boolean(TRUE) -> Invoke("execute", <<then>>, c.st)
                    [] otherwise # <<>> -> Invoke("execute", <<otherwise[1]>>, c.st)
                    [] OTHER -> Ok(c.st, Empty)
    IN  IF c.res # "Ok" THEN c
        ELSE IF branch.res # "Ok" THEN branch
        ELSE Ok(branch.st, String(""))

\* Interpreter::execute_if
execute_if(condition, then, otherwise, st) ==
    LET c == Invoke("evaluate", <<condition>>, st)
        branch == CASE c.value = Boolean(TRUE) -> Invoke("execute", <<then>>, c.st)
                    [] c.value = Boolean(FALSE) /\ otherwise # <<>> ->
                         Invoke("execute", <<otherwise[1]>>, c.st)
                    [] c.value = Boolean(FALSE) -> Ok(c.st, Empty)
                    [] OTHER ->
                         report_type_error(c.st,
                           "Condition of 'if' statement should be a boolean expression")
    IN  IF c.res # "Ok" THEN c
        ELSE IF branch.res # "Ok" THEN branch
        ELSE Ok(branch.st, String(""))

\* Interpreter::execute_while
execute_while(condition, body, st) ==
    LET c == Invoke("evaluate", <<condition>>, st)
        b == Invoke("execute", <<body>>, [c.st EXCEPT !.fuel = @ - 1])
    IN  IF c.res # "Ok" THEN c
        ELSE IF c.value # Boolean(TRUE) THEN Ok(c.st, String(""))
        ELSE IF c.st.fuel = 0 THEN Result(c.st, "OutOfFuel", Empty)
        ELSE IF b.res # "Ok" THEN b
        ELSE Invoke("execute_while", <<condition, body>>, b.st)

\* Interpreter::execute_return
execute_return(expr, st) ==
    LET in_function == \E i \in 1..Len(st.scopes) : st.scopes[i].function
        r == IF in_function THEN Invoke("evaluate", <<expr>>, st)
             ELSE report_runtime_error(st, "Illegal use of 'return' outside of a function")
    IN  [r EXCEPT !.st.returns =
           Append(@, [in_call |-> st.active # <<>>, before |-> st.scopes,
                      res |-> r.res, value |-> r.value,
                      reported |-> SubSeq(r.st.stdout, Len(st.stdout) + 1,
                                          Len(r.st.stdout))])]

Invoke(fn, args, st) ==
    CASE fn = "evaluate" -> evaluate(args[1], st)
      [] fn = "evaluate_unary" -> evaluate_unary(args[1], args[2], st)
      [] fn = "evaluate_binary" -> evaluate_binary(args[1], args[2], args[3], st)
      [] fn = "evaluate_binary_logic" ->
           evaluate_binary_logic(args[1], args[2], args[3], st)
      [] fn = "evaluate_arguments" -> evaluate_arguments(args[1], args[2], args[3], st)
      [] fn = "evaluate_call" -> evaluate_call(args[1], args[2], st)
      [] fn = "bind_arguments" -> bind_arguments(args[1], args[2], args[3], st)
      [] fn = "call" -> call(args[1], args[2], args[3], st)
      [] fn = "execute" -> execute(args[1], st)
      [] fn = "execute_assignment" -> execute_assignment(args[1], args[2], st)
      [] fn = "execute_statements" -> execute_statements(args[1], args[2], st)
      [] fn = "execute_block" -> execute_block(args[1], args[2], st)
      [] fn = "execute_if" -> execute_if(args[1], args[2], args[3], st)
      [] fn = "execute_while" -> execute_while(args[1], args[2], st)
      [] fn = "execute_return" -> execute_return(args[1], st)

(***************************************************************************)
(* The programs of the model.  A program is a sequence of at most          *)
(* MaxStatements top-level statements, each drawn from the tables below;   *)
(* the statements have the shapes the grammar gives them (the body of an   *)
(* `if` or `while` is a block).                                            *)
(***************************************************************************)

\* f <name>(<params>) { Bodies[body] }
FunctionDeclarations == <<
    FunctionDeclaration("g", <<"n">>, 1),
    FunctionDeclaration("g", <<"n">>, 2),
    FunctionDeclaration("g", <<"n">>, 3),
    FunctionDeclaration("g", <<"n">>, 4),
    FunctionDeclaration("g", <<"n">>, 5),
    FunctionDeclaration("g", <<"n">>, 6),
    FunctionDeclaration("g", <<"n">>, 7),
    FunctionDeclaration("g", <<>>, 8),
    FunctionDeclaration("g", <<"a", "n">>, 6),
    FunctionDeclaration("time", <<>>, 8),
    FunctionDeclaration("out", <<>>, 8),
    FunctionDeclaration("a", <<"n">>, 1),
    FunctionDeclaration("g", <<"n">>, 9),
    FunctionDeclaration("g", <<"n">>, 10)
  >>

\* the expressions of the expression statements
Expressions == <<
    Variable("a"),
    Variable("b"),
    Variable("n"),
    Variable("g"),
    Variable("time"),
    Call(Variable("g"), <<Num(2)>>),
    Call(Variable("g"), <<True>>),
    Call(Variable("g"), <<>>),
    Call(Variable("g"), <<Num(1), Num(2)>>),
    Call(Variable("g"), <<Call(Variable("out"), <<Num(1)>>)>>),
    Call(Variable("time"), <<>>),
    Call(Variable("time"), <<Num(3)>>),
    Call(Variable("out"), <<>>),
    Call(Variable("out"), <<Variable("a")>>),
    Call(Variable("size"), <<Str("ab")>>),
    Call(Variable("ask"), <<Str("?")>>),
    Call(Variable("cmd"), <<Str("ls")>>),
    Call(Variable("a"), <<>>)
  >>

\* the names and the right-hand sides of the top-level assignments
AssignmentNames == <<"a", "n", "g", "time">>

AssignmentValues == <<
    Num(1),
    True,
    Str("s"),
    EmptyLiteral,
    EmptyOf("Boolean"),
    EmptyOf("Number"),
    Variable("time"),
    Variable("g"),
    Call(Variable("g"), <<Num(2)>>)
  >>

Blocks == <<
    \* { b = 2 }
    Block(<<Assignment("b", Num(2))>>),
    \* { a = 5 \n { a = 6 \n b = 1 } }
    Block(<<Assignment("a", Num(5)),
            Block(<<Assignment("a", Num(6)), Assignment("b", Num(1))>>)>>),
    \* { b = 1 \n g(2) }
    Block(<<Assignment("b", Num(1)), ExprStatement(Call(Variable("g"), <<Num(2)>>))>>),
    \* { { b = 3 } \n out(b) }
    Block(<<Block(<<Assignment("b", Num(3))>>), Out(Variable("b"))>>),
    \* { a = empty \n a = true }
    Block(<<Assignment("a", EmptyLiteral), Assignment("a", True)>>),
    \* { return 1 \n out("late") }
    Block(<<Return(Num(1)), Out(Str("late"))>>),
    \* { time = 1 \n f g() { .. } \n time }
    Block(<<Assignment("time", Num(1)), FunctionDeclaration("g", <<>>, 8),
            ExprStatement(Variable("time"))>>),
    \* { g(2) \n return 1 }
    Block(<<ExprStatement(Call(Variable("g"), <<Num(2)>>)), Return(Num(1))>>),
    \* { { b = 1 \n g(2) } \n out(b) }
    Block(<<Block(<<Assignment("b", Num(1)),
                    ExprStatement(Call(Variable("g"), <<Num(2)>>))>>),
            Out(Variable("b"))>>),
    \* { n = "s" \n g(2) }
    Block(<<Assignment("n", Str("s")), ExprStatement(Call(Variable("g"), <<Num(2)>>))>>),
    \* { a = 2 \n out(a) \n g(2) \n out("after") }
    Block(<<Assignment("a", Num(2)), Out(Variable("a")),
            ExprStatement(Call(Variable("g"), <<Num(2)>>)), Out(Str("after"))>>)
  >>

Ifs == <<
    \* if a { b = 1 } else { b = 2 }
    If(Variable("a"), Block(<<Assignment("b", Num(1))>>),
       <<Block(<<Assignment("b", Num(2))>>)>>),
    \* if a == 1 { a = 2 } else if true { a = 1 }
    If(Binary(Variable("a"), Op("EqualEqual"), Num(1)),
       Block(<<Assignment("a", Num(2))>>),
       <<If(True, Block(<<Assignment("a", Num(1))>>), <<>>)>>),
    \* if true { return 1 }
    If(True, Block(<<Return(Num(1))>>), <<>>),
    \* if g(true) { out("then") } else { out("else") }
    If(Call(Variable("g"), <<True>>), Block(<<Out(Str("then"))>>),
       <<Block(<<Out(Str("else"))>>)>>),
    \* if g(false) { out("then") } else { out("else") }
    If(Call(Variable("g"), <<False>>), Block(<<Out(Str("then"))>>),
       <<Block(<<Out(Str("else"))>>)>>),
    \* if a == 1 { out("then") }
    If(Binary(Variable("a"), Op("EqualEqual"), Num(1)),
       Block(<<Out(Str("then"))>>), <<>>)
  >>

Whiles == <<
    \* while a < 3 { a = a + 1 }
    While(Binary(Variable("a"), Op("Less"), Num(3)),
          Block(<<Assignment("a", Binary(Variable("a"), Op("Plus"), Num(1)))>>)),
    \* while a { a = false }
    While(Variable("a"), Block(<<Assignment("a", False)>>)),
    \* while true { return 1 }
    While(True, Block(<<Return(Num(1))>>)),
    \* while a { a = empty }
    While(Variable("a"), Block(<<Assignment("a", EmptyLiteral)>>))
  >>

Returns == <<Return(Num(1)), Return(Variable("a"))>>

\* what the host answers: a line typed to ask(), the output of a command
Hosts == {[input |-> "", output |-> ""], [input |-> "yes", output |-> "x"]}

(***************************************************************************)
(* The state of one run of Interpreter::interpret.                         *)
(*   scopes        Interpreter.environment.scopes                          *)
(*   stdout        the lines written so far                                *)
(*   clock, host   the host                                                *)
(*   result        `result` of interpret                                   *)
(*   status        "running" in the loop; "ok" / "err" once interpret has  *)
(*                 returned Ok(result) / Err(()); "panic" once it panicked *)
(*   count         statements executed                                     *)
(*   last          the statement executed last, the scopes it started      *)
(*                 from, its Result, the observations made in it, the      *)
(*                 lines it wrote, the calls of time() it made and the    *)
(*                 `result` it replaced                                    *)
(***************************************************************************)
VARIABLES scopes, stdout, clock, host, result, status, count, last

vars == <<scopes, stdout, clock, host, result, status, count, last>>

NoStatement == [kind |-> "", table |-> 0, name |-> ""]

Last(statement, before, r) ==
    [statement |-> statement, before |-> before, res |-> r.res, value |-> r.value,
     late |-> r.st.late, entered |-> r.st.entered, calls |-> r.st.calls,
     assigns |-> r.st.assigns, blocks |-> r.st.blocks, returns |-> r.st.returns,
     arities |-> r.st.arities,
     printed |-> SubSeq(r.st.stdout, Len(stdout) + 1, Len(r.st.stdout)),
     ticks |-> r.st.clock - clock,
     previous |-> result]

Init ==
    /\ scopes = NewInterpreter
    /\ stdout = <<>>
    /\ clock = 1
    /\ host \in Hosts
    /\ result = ""
    /\ status = "running"
    /\ count = 0
    /\ last = Last(NoStatement, NewInterpreter,
                   Ok(NewState(NewInterpreter, <<>>, 1, [input |-> "", output |-> ""]),
                      Empty))

\* the loop of interpret going on to the next statement after an error
Running_after_error == status \in {"running", "err"} /\ count < MaxStatements

\* the loop of Interpreter::interpret has a next statement
Running == status = "running" /\ count < MaxStatements

\* `result` keeping the last value whose rendering is not empty
interpret_result_last_nonempty(previous, r) ==
    IF r.res = "Ok" /\ Display(r.value) # "" THEN Display(r.value) ELSE previous

\* result = format!("{}", self.execute(statement).or(Err(()))?)
interpret_result(previous, r) ==
    IF r.res = "Ok" THEN Display(r.value) ELSE previous

\* the end of one iteration of the loop of Interpreter::interpret: r is the
\* Result of execute, `described` names the statement in `last`
Executed(r, described) ==
    /\ r.res \notin {"OutOfFuel", "Unmodelled"}
    /\ scopes' = r.st.scopes
    /\ stdout' = r.st.stdout
    /\ clock' = r.st.clock
    /\ result' = interpret_result(result, r)
    /\ status' = CASE r.res = "Ok" -> "running"
                   [] r.res = "Panic" -> "panic"
                   [] OTHER -> "err"
    /\ last' = Last(described, scopes, r)
    /\ count' = count + 1
    /\ UNCHANGED host

\* one iteration of the loop of Interpreter::interpret on `statement`
Interpret(statement, described) ==
    Executed(Invoke("execute", <<statement>>, NewState(scopes, stdout, clock, host)),
             described)

Describe(kind, table, name) == [kind |-> kind, table |-> table, name |-> name]

InterpretExpr ==
    \E i \in DOMAIN Expressions :
        /\ Running
        /\ Interpret(ExprStatement(Expressions[i]), Describe("Expr", i, ""))

InterpretAssignment ==
    \E n \in DOMAIN AssignmentNames, i \in DOMAIN AssignmentValues :
        /\ Running
        /\ Interpret(Assignment(AssignmentNames[n], AssignmentValues[i]),
                     Describe("Assignment", i, AssignmentNames[n]))

InterpretBlock ==
    \E i \in DOMAIN Blocks :
        /\ Running
        /\ Interpret(Blocks[i], Describe("Block", i, ""))

InterpretIf ==
    \E i \in DOMAIN Ifs :
        /\ Running
        /\ Interpret(Ifs[i], Describe("If", i, ""))

InterpretWhile ==
    \E i \in DOMAIN Whiles :
        /\ Running
        /\ Interpret(Whiles[i], Describe("While", i, ""))

InterpretFunctionDeclaration ==
    \E i \in DOMAIN FunctionDeclarations :
        /\ Running
        /\ Interpret(FunctionDeclarations[i],
                     Describe("FunctionDeclaration", i, FunctionDeclarations[i].ident))

InterpretReturn ==
    \E i \in DOMAIN Returns :
        /\ Running
        /\ Interpret(Returns[i], Describe("Return", i, ""))

\* the loop of interpret has run out of statements: Ok(result)
InterpretDone ==
    /\ status = "running"
    /\ status' = "ok"
    /\ UNCHANGED <<scopes, stdout, clock, host, result, count, last>>

Next ==
    \/ InterpretExpr
    \/ InterpretAssignment
    \/ InterpretBlock
    \/ InterpretIf
    \/ InterpretWhile
    \/ InterpretFunctionDeclaration
    \/ InterpretReturn
    \/ InterpretDone

Spec == Init /\ [][Next]_vars

(***************************************************************************)
(* Properties.  Each reads `last`: what the statement executed last did.   *)
(***************************************************************************)

\* C1: after a user-function call completes without error, whether its body
\* ran to its end or executed `return` at any block-nesting depth, the scope
\* stack has the depth and the frames it had immediately before the call:
\* every frame pushed by the call and by the blocks entered during it has
\* been popped.
C1_CallRestoresScopes ==
    \A i \in DOMAIN last.calls :
        LET c == last.calls[i]
        IN  /\ Len(c.after) = Len(c.before)
            /\ \A k \in 1..Len(c.before) : c.after[k].function = c.before[k].function

\* a call whose body executed `return` two blocks deep has completed, and the
\* frame of the call, holding its parameter, is still on top of the stack
C1_FunctionFrameLeft ==
    \E i \in DOMAIN last.calls :
        LET c == last.calls[i]
        IN  /\ c.body = 4
            /\ c.returned
            /\ Len(c.after) = Len(c.before) + 1
            /\ c.after = c.bound
            /\ c.after[Len(c.after)].function

\* C2: a `return` statement executed while no function call is in progress
\* (at top level, or inside top-level blocks, if or while) yields a Runtime
\* error, whatever statements were executed before, calls that have already
\* returned included.
C2_ReturnOutsideCallIsRuntimeError ==
    \A i \in DOMAIN last.returns :
        LET r == last.returns[i]
        IN  ~r.in_call =>
              /\ r.res = "Error"
              /\ r.reported =
                   <<[error_type |-> "Runtime error",
                      message |-> "Illegal use of 'return' outside of a function"]>>

\* in the top-level block { g(2) \n return 1 }, after the call g(2) has
\* returned, `return 1` is accepted: it reports nothing and yields 1
C2_ReturnAfterCallAccepted ==
    /\ last.statement = Describe("Block", 8, "")
    /\ Len(last.calls) = 1
    /\ \E i \in DOMAIN last.returns :
         /\ ~last.returns[i].in_call
         /\ last.returns[i].res = "Ok"
         /\ last.returns[i].value = Number(1)
         /\ last.returns[i].reported = <<>>
         /\ \E k \in 1..Len(last.returns[i].before) :
              last.returns[i].before[k].function

\* C3: when `return e` executes inside a user function at any block-nesting
\* depth, the call evaluates to the value of e and no later statement of that
\* function body is executed (not in the same block, not in an enclosing
\* block, not in a further iteration of an enclosing while); a body that
\* completes without executing `return` makes the call evaluate to untyped
\* Empty.
C3_ReturnEndsTheCall ==
    /\ ~last.late
    /\ \A k \in DOMAIN stdout : stdout[k].message # "late"
    /\ \A i \in DOMAIN last.calls :
         LET c == last.calls[i]
         IN  /\ c.returned => c.value = c.returning
             /\ ~c.returned => c.value = Empty

\* a call has returned its argument 2 from a `return` inside an if inside a
\* while, with statements following in both enclosing blocks
C3_ReturnedFromNestedBlocks ==
    \E i \in DOMAIN last.calls :
        LET c == last.calls[i]
        IN  /\ c.body = 4
            /\ c.returned
            /\ c.values = <<Number(2)>>
            /\ c.value = Number(2)

\* the type names of the language: a typed empty has the type of its twin, a
\* function that of its number of parameters
TypeName(v) ==
    CASE v.tag \in {"Boolean", "EmptyBoolean"} -> <<"boolean">>
      [] v.tag \in {"Number", "EmptyNumber"} -> <<"number">>
      [] v.tag = "String" -> <<"string">>
      [] v.tag \in {"Function", "NativeFunction"} -> <<"function", Len(v.args)>>
      [] OTHER -> <<>>

\* `frames` with the binding of `name` in its topmost binding frame set to v
Rebound(frames, name, v) ==
    [frames EXCEPT ![Max(Binders(frames, name))].map[name] = v]

\* C4: assigning untyped `empty` to a name: if the name is unbound in every
\* frame the result is a Runtime error and the environment is unchanged; if
\* it is bound to Boolean or EmptyBoolean its binding becomes EmptyBoolean,
\* and if it is bound to Number or EmptyNumber its binding becomes
\* EmptyNumber, in the frame where the name was found (resetting an already
\* typed-empty name is a no-op that succeeds).
C4_AssignUntypedEmpty ==
    /\ \A i \in DOMAIN last.assigns :
         LET a == last.assigns[i]
             current == get(a.before, a.name)
         IN  (a.by = "assignment" /\ a.value = Empty) =>
               /\ current = <<>> =>
                    a.res = "EmptyDeclarationNoType" /\ a.after = a.before
               /\ (current # <<>> /\ TypeName(current[1]) = <<"boolean">>) =>
                    a.res = "Ok" /\ a.after = Rebound(a.before, a.name, EmptyBoolean)
               /\ (current # <<>> /\ TypeName(current[1]) = <<"number">>) =>
                    a.res = "Ok" /\ a.after = Rebound(a.before, a.name, EmptyNumber)
    /\ (/\ last.statement.kind = "Assignment"
        /\ AssignmentValues[last.statement.table] = EmptyLiteral
        /\ get(last.before, last.statement.name) = <<>>) =>
          /\ last.res = "Error"
          /\ stdout[Len(stdout)].error_type = "Runtime error"
          /\ scopes = last.before

\* `a = empty` has been executed with a bound to EmptyBoolean, and the
\* interpreter has panicked
C4_ResetOfTypedEmptyPanics ==
    /\ last.statement.kind = "Assignment"
    /\ AssignmentValues[last.statement.table] = EmptyLiteral
    /\ get(last.before, last.statement.name) = <<EmptyBoolean>>
    /\ last.res = "Panic"
    /\ status = "panic"

\* C5: executing a function declaration whose name is already bound in any
\* frame of the scope stack -- to a variable, to a user function of any arity
\* (the same arity included), or to a native function of the global frame
\* such as time -- yields a Type error and leaves the existing binding
\* unchanged.
C5_RedeclarationIsTypeError ==
    /\ \A i \in DOMAIN last.assigns :
         LET a == last.assigns[i]
         IN  (a.by = "declaration" /\ get(a.before, a.name) # <<>>) =>
               a.res = "InvalidType" /\ a.after = a.before
    /\ (/\ last.statement.kind = "FunctionDeclaration"
        /\ get(last.before, last.statement.name) # <<>>) =>
          /\ last.res = "Error"
          /\ stdout[Len(stdout)].error_type = "Type error"
          /\ scopes = last.before

\* `f time() { return 1 }` has been executed at top level and has replaced
\* the native function time by the user function
C5_NativeReplaced ==
    /\ last.statement.kind = "FunctionDeclaration"
    /\ last.statement.name = "time"
    /\ get(last.before, "time") = <<NativeFunction("time", <<>>)>>
    /\ last.res = "Ok"
    /\ get(scopes, "time") = <<Function("time", <<>>, 8)>>

\* C6: assigning a value other than untyped `empty` to a name that is
\* already bound with a different type (boolean, number, string,
\* function(N); a typed empty has the type of its twin) yields a Type error
\* and leaves every frame unchanged; assigning a value of the same type
\* succeeds and replaces the binding.
C6_AssignChecksType ==
    /\ \A i \in DOMAIN last.assigns :
         LET a == last.assigns[i]
             current == get(a.before, a.name)
         IN  (a.by = "assignment" /\ a.value # Empty /\ current # <<>>) =>
               IF TypeName(current[1]) = TypeName(a.value)
               THEN a.res = "Ok" /\ a.after = Rebound(a.before, a.name, a.value)
               ELSE a.res = "InvalidType" /\ a.after = a.before
    /\ (/\ last.statement.kind = "Assignment"
        /\ last.assigns # <<>>
        /\ last.assigns[Len(last.assigns)].by = "assignment"
        /\ last.assigns[Len(last.assigns)].res = "InvalidType") =>
          /\ last.res = "Error"
          /\ stdout[Len(stdout)].error_type = "Type error"
          /\ scopes = last.assigns[Len(last.assigns)].before

\* a number has been assigned to a name bound to EmptyBoolean: a Type error,
\* and the binding is still EmptyBoolean
C6_TypedEmptyKeepsItsType ==
    /\ last.statement.kind = "Assignment"
    /\ get(last.before, last.statement.name) = <<EmptyBoolean>>
    /\ last.assigns # <<>>
    /\ last.assigns[Len(last.assigns)].value = Number(1)
    /\ last.res = "Error"
    /\ stdout[Len(stdout)].error_type = "Type error"
    /\ get(scopes, last.statement.name) = <<EmptyBoolean>>

\* C7: a name first assigned inside a block (a plain block, an if/else body
\* or a while body) is unbound once that block has finished: reading it
\* afterwards is an undefined-symbol Runtime error, even from an enclosing
\* block.
C7_BlockNamesEndWithBlock ==
    /\ \A i \in DOMAIN last.blocks :
         \A name \in last.blocks[i].names : get(last.blocks[i].after, name) = <<>>
    /\ (/\ last.statement.kind = "Expr"
        /\ Expressions[last.statement.table] = Variable("b")) =>
          /\ last.res = "Error"
          /\ stdout[Len(stdout)] =
               [error_type |-> "Runtime error", message |-> "Undefined symbol 'b'"]
    /\ (/\ last.statement = Describe("Block", 9, "")
        /\ \E i \in DOMAIN last.blocks : "b" \in last.blocks[i].names) =>
          /\ last.res = "Error"
          /\ stdout[Len(stdout)] =
               [error_type |-> "Runtime error", message |-> "Undefined symbol 'b'"]

\* in { { b = 1 \n g(2) } \n out(b) } the inner block has finished and the
\* enclosing block has read b: out(b) has printed 1
C7_BlockNameRead ==
    /\ last.statement = Describe("Block", 9, "")
    /\ last.res = "Ok"
    /\ stdout[Len(stdout)] = [error_type |-> "", message |-> "1"]

\* C8: an assignment to a name that is bound in some frame updates the
\* binding in the topmost frame that contains it and creates no new binding
\* in any other frame, so the new value is still visible after the inner
\* blocks exit; an assignment to a name bound in no frame creates the
\* binding in the top (innermost) frame only and changes no other frame.
C8_AssignmentFrame ==
    /\ \A i \in DOMAIN last.assigns :
         LET a == last.assigns[i]
             binders == Binders(a.before, a.name)
             frame == IF binders = {} THEN Len(a.before) ELSE Max(binders)
         IN  (a.by = "assignment" /\ a.res = "Ok") =>
               /\ Len(a.after) = Len(a.before)
               /\ \A k \in 1..Len(a.before) :
                    /\ a.after[k].function = a.before[k].function
                    /\ k # frame => a.after[k] = a.before[k]
               /\ DOMAIN a.after[frame].map = DOMAIN a.before[frame].map \cup {a.name}
               /\ \A n \in DOMAIN a.before[frame].map :
                    n # a.name => a.after[frame].map[n] = a.before[frame].map[n]
               /\ a.after[frame].map[a.name].tag # "Empty"
               /\ a.value # Empty => a.after[frame].map[a.name] = a.value
    /\ (/\ last.statement = Describe("Block", 2, "")
        /\ get(last.before, "a") # <<>>
        /\ last.res = "Ok") =>
          get(scopes, "a") = <<Number(6)>>

\* the inner block of { a = 5 \n { a = 6 \n b = 1 } } has assigned 6 to the a
\* of a frame below its own, and after both blocks a is 6
C8_OuterBindingUpdated ==
    /\ last.statement = Describe("Block", 2, "")
    /\ get(last.before, "a") = <<Number(1)>>
    /\ last.res = "Ok"
    /\ get(scopes, "a") = <<Number(6)>>
    /\ \E i \in DOMAIN last.assigns :
         LET a == last.assigns[i]
         IN  /\ a.name = "a"
             /\ a.value = Number(6)
             /\ Binders(a.before, "a") # {}
             /\ Max(Binders(a.before, "a")) < Len(a.before)

\* C9: calling a user function binds each parameter as a new binding in the
\* fresh function frame of the call, without consulting or type-checking
\* outer bindings: a binding of the same name held by the caller or by the
\* global frame (of any type) has the same value after the call as before
\* it, even when the body assigns to the parameter.
C9_ParametersAreFresh ==
    \A i \in DOMAIN last.calls :
        LET c == last.calls[i]
            depth == Len(c.before)
        IN  /\ Len(c.bound) = depth + 1
            /\ SubSeq(c.bound, 1, depth) = c.before
            /\ c.bound[depth + 1].function
            /\ DOMAIN c.bound[depth + 1].map =
                 {c.arguments[k] : k \in DOMAIN c.arguments}
            /\ \A k \in DOMAIN c.arguments :
                 c.bound[depth + 1].map[c.arguments[k]] = c.values[k]
            /\ Len(c.after) >= depth
            /\ \A k \in 1..depth :
                 \A j \in DOMAIN c.arguments :
                   c.arguments[j] \in DOMAIN c.before[k].map =>
                     /\ c.arguments[j] \in DOMAIN c.after[k].map
                     /\ c.after[k].map[c.arguments[j]] = c.before[k].map[c.arguments[j]]

\* g(2) has been called with f g(n) { n = 9 \n a = n } from the block
\* { n = "s" \n g(2) }: the n of the caller was the string "s" before the
\* call and is "s" after it
C9_CallerBindingKept ==
    \E i \in DOMAIN last.calls :
        LET c == last.calls[i]
        IN  /\ c.body = 6
            /\ c.values = <<Number(2)>>
            /\ get(c.before, "n") = <<String("s")>>
            /\ c.bound[Len(c.bound)].map["n"] = Number(2)
            /\ get(c.after, "n") = <<String("s")>>

\* C10: a call whose number of arguments differs from the number of
\* parameters of the callee (user or native function) yields a Type error
\* that reports the expected and the actual count; the function body is not
\* executed, no scope frame is pushed and the environment is unchanged.
C10_ArityMismatch ==
    /\ \A i \in DOMAIN last.arities :
         LET m == last.arities[i]
             expected == Len(m.callee.args)
         IN  /\ expected # m.found
             /\ m.res = "Error"
             /\ m.report.error_type = "Type error"
             /\ m.report.message =
                  "Expected " \o ToString(expected)
                    \o (IF expected = 1 THEN " argument" ELSE " arguments")
                    \o ", but found " \o ToString(m.found)
             /\ m.bodies = 0
             /\ m.after = m.before
    /\ last.statement.kind = "Expr" =>
         LET e == Expressions[last.statement.table]
             callee == get(last.before, e.callee.name)
         IN  (/\ e.kind = "Call"
              /\ \A j \in DOMAIN e.arguments : e.arguments[j].kind = "Primary"
              /\ callee # <<>>
              /\ IsFunction(callee[1])
              /\ Len(callee[1].args) # Len(e.arguments)) =>
               /\ last.res = "Error"
               /\ Len(last.arities) = 1
               /\ last.entered = 0
               /\ scopes = last.before
               /\ stdout = Append(SubSeq(stdout, 1, Len(stdout) - 1),
                                  last.arities[1].report)

\* g(1, 2) has been evaluated with f g(n) declared: a Type error naming both
\* counts, and the scope stack is the one the call started from
C10_TooManyArguments ==
    /\ last.res = "Error"
    /\ \E i \in DOMAIN last.arities :
         LET m == last.arities[i]
         IN  /\ m.callee.tag = "Function"
             /\ m.callee.args = <<"n">>
             /\ m.found = 2
             /\ m.report.message = "Expected 1 argument, but found 2"
             /\ scopes = m.before

(***************************************************************************)
(* evaluate_equality on every pair of values.  A behaviour of SpecEquality *)
(* is one comparison: the evaluator applies the operator to left_value and *)
(* right_value, and to the same operands swapped.                          *)
(***************************************************************************)
\* the operands: every variant of Value, two of each where the variant
\* carries something, and functions that share a name
Values ==
    {Boolean(TRUE), Boolean(FALSE), Number(1), Number(2), String(""), String("s"),
     EmptyBoolean, EmptyNumber, Empty,
     Function("g", <<"n">>, 1), Function("g", <<>>, 8), Function("time", <<>>, 8),
     NativeFunction("time", <<>>), NativeFunction("out", <<"">>)}

EvaluateEquality ==
    \E left_value \in Values, right_value \in Values,
       token_type \in {"EqualEqual", "BangEqual"} :
        LET st == NewState(scopes, stdout, clock, host)
            r == evaluate_equality(left_value, Op(token_type), right_value, st)
            swapped == evaluate_equality(right_value, Op(token_type), left_value, st)
        IN  /\ status = "running"
            /\ count = 0
            /\ count' = 1
            /\ stdout' = r.st.stdout
            /\ result' = interpret_result(result, r)
            /\ status' = IF r.res = "Ok" THEN "ok" ELSE "err"
            /\ last' = [statement |-> [kind |-> "Equality", operator |-> token_type,
                                       left_value |-> left_value,
                                       right_value |-> right_value],
                        before |-> scopes, res |-> r.res, value |-> r.value,
                        swapped |-> [res |-> swapped.res, value |-> swapped.value]]
            /\ UNCHANGED <<scopes, clock, host>>

SpecEquality == Init /\ [][EvaluateEquality]_vars

\* the table of ==: two concrete values of one variant by their content, any
\* two empties but EmptyBoolean with EmptyNumber, two functions by name
EqualByTable(l, r) ==
    CASE l.tag = "Boolean" /\ r.tag = "Boolean" -> l.boolean = r.boolean
      [] l.tag = "Number" /\ r.tag = "Number" -> l.number = r.number
      [] l.tag = "String" /\ r.tag = "String" -> l.string = r.string
      [] /\ l.tag \in {"Empty", "EmptyBoolean", "EmptyNumber"}
         /\ r.tag \in {"Empty", "EmptyBoolean", "EmptyNumber"} ->
           {l.tag, r.tag} # {"EmptyBoolean", "EmptyNumber"}
      [] /\ l.tag \in {"Function", "NativeFunction"}
         /\ r.tag \in {"Function", "NativeFunction"} -> l.name = r.name
      [] OTHER -> FALSE

LogicOperators == <<"And", "Or">>

\* true, false, a, time
LogicLefts == <<True, False, Variable("a"), Variable("time")>>

\* true, 1, b, g(true), time()
LogicRights ==
    <<True, Num(1), Variable("b"), Call(Variable("g"), <<True>>),
      Call(Variable("time"), <<>>)>>

InterpretLogic ==
    \E o \in DOMAIN LogicOperators, l \in DOMAIN LogicLefts, r \in DOMAIN LogicRights :
        /\ Running
        /\ Interpret(ExprStatement(Binary(LogicLefts[l], Op(LogicOperators[o]),
                                          LogicRights[r])),
                     [kind |-> "Logic", operator |-> LogicOperators[o],
                      left |-> l, right |-> r])

NextLogic ==
    \/ InterpretLogic
    \/ InterpretAssignment
    \/ InterpretFunctionDeclaration
    \/ InterpretDone

SpecLogic == Init /\ [][NextLogic]_vars

\* C12: for `a and b` the right operand is evaluated iff a evaluates to
\* Boolean(true), for `a or b` iff a does not evaluate to Boolean(true);
\* when the right operand is skipped none of its side effects or errors
\* occur.  The result is always a Boolean: Boolean(true) iff the deciding
\* operand is Boolean(true); non-boolean operands count as false and raise
\* no error.
C12_ShortCircuit ==
    (/\ last.statement.kind = "Logic"
     /\ last.statement.left \in {1, 2} \/ get(last.before, "a") # <<>>) =>
      LET left_value == CASE last.statement.left = 1 -> Boolean(TRUE)
                          [] last.statement.left = 2 -> Boolean(FALSE)
                          [] last.statement.left = 3 -> get(last.before, "a")[1]
                          [] OTHER -> get(last.before, "time")[1]
          right == last.statement.right
          g == get(last.before, "g")
          evaluated == IF last.statement.operator = "And"
                       THEN left_value = Boolean(TRUE)
                       ELSE left_value # Boolean(TRUE)
      IN  IF ~evaluated
          THEN /\ last.res = "Ok"
               /\ last.value = Boolean(last.statement.operator = "Or")
               /\ last.printed = <<>>
               /\ last.entered = 0
               /\ last.ticks = 0
               /\ scopes = last.before
          ELSE CASE right = 1 -> last.res = "Ok" /\ last.value = Boolean(TRUE)
                 [] right = 2 -> last.res = "Ok" /\ last.value = Boolean(FALSE)
                 [] right = 3 ->
                      IF get(last.before, "b") = <<>>
                      THEN /\ last.res = "Error"
                           /\ last.printed = <<[error_type |-> "Runtime error",
                                                message |-> "Undefined symbol 'b'"]>>
                      ELSE /\ last.res = "Ok"
                           /\ last.value =
                                Boolean(get(last.before, "b") = <<Boolean(TRUE)>>)
                 [] right = 4 ->
                      IF g = <<>> THEN last.res = "Error"
                      ELSE (last.res = "Ok" /\ Len(g[1].args) = 1) =>
                             /\ last.entered >= 1
                             /\ last.calls # <<>>
                             /\ last.value =
                                  Boolean(last.calls[Len(last.calls)].value
                                            = Boolean(TRUE))
                 [] OTHER ->
                      get(last.before, "time") = <<NativeFunction("time", <<>>)>> =>
                        /\ last.ticks = 1
                        /\ last.res = "Ok"
                        /\ last.value = Boolean(FALSE)

\* `false and g(true)` has been evaluated with g declared: the result is
\* false and no body of g has been entered
C12_RightOperandSkipped ==
    /\ last.statement.kind = "Logic"
    /\ last.statement.operator = "And"
    /\ last.statement.left = 2
    /\ last.statement.right = 4
    /\ get(last.before, "g") # <<>>
    /\ last.res = "Ok"
    /\ last.value = Boolean(FALSE)
    /\ last.entered = 0

\* the lines "then" and "else" among the lines a statement wrote
BranchLines(printed) ==
    {printed[k].message : k \in DOMAIN printed} \cap {"then", "else"}

\* the report of a condition of `if` that is no Boolean
IfConditionReport ==
    [error_type |-> "Type error",
     message |-> "Condition of 'if' statement should be a boolean expression"]

\* C13: an if statement evaluates its condition exactly once, before any
\* branch; if the condition is not a Boolean (a number, string, function or
\* any empty) the statement yields a Type error and neither the then nor
\* the else branch executes; otherwise exactly the selected branch executes.
C13_IfCondition ==
    /\ (last.statement = Describe("If", 1, "") /\ get(last.before, "a") # <<>>) =>
         LET a == get(last.before, "a")[1]
             assigned == [k \in DOMAIN last.assigns |-> last.assigns[k].value]
         IN  CASE a = Boolean(TRUE) -> last.res = "Ok" /\ assigned = <<Number(1)>>
               [] a = Boolean(FALSE) -> last.res = "Ok" /\ assigned = <<Number(2)>>
               [] OTHER -> /\ last.res = "Error"
                           /\ assigned = <<>>
                           /\ last.printed = <<IfConditionReport>>
                           /\ scopes = last.before
    /\ (/\ last.statement \in {Describe("If", 4, ""), Describe("If", 5, "")}
        /\ get(last.before, "g") # <<>>
        /\ get(last.before, "g")[1].tag = "Function"
        /\ Len(get(last.before, "g")[1].args) = 1) =>
         /\ last.entered = 1
         /\ IF last.calls = <<>>
            THEN last.res = "Error" /\ BranchLines(last.printed) = {}
            ELSE CASE last.calls[1].value = Boolean(TRUE) ->
                        last.res = "Ok" /\ BranchLines(last.printed) = {"then"}
                   [] last.calls[1].value = Boolean(FALSE) ->
                        last.res = "Ok" /\ BranchLines(last.printed) = {"else"}
                   [] OTHER ->
                        /\ last.res = "Error"
                        /\ BranchLines(last.printed) = {}
                        /\ last.printed[Len(last.printed)] = IfConditionReport
    /\ (last.statement = Describe("If", 6, "") /\ get(last.before, "a") # <<>>) =>
         /\ last.res = "Ok"
         /\ BranchLines(last.printed) =
              IF get(last.before, "a") = <<Number(1)>> THEN {"then"} ELSE {}

\* `if g(false) { out("then") } else { out("else") }` has run with g
\* returning its argument: one body entered, "else" written and not "then"
C13_ElseBranchOnly ==
    /\ last.statement = Describe("If", 5, "")
    /\ last.entered = 1
    /\ last.calls # <<>>
    /\ last.calls[1].value = Boolean(FALSE)
    /\ last.res = "Ok"
    /\ BranchLines(last.printed) = {"else"}

\* `if a { b = 1 } else { b = 2 }` has run with a = "s": a Type error, and
\* no assignment to b
C13_StringCondition ==
    /\ last.statement = Describe("If", 1, "")
    /\ get(last.before, "a") = <<String("s")>>
    /\ last.res = "Error"
    /\ last.assigns = <<>>
    /\ last.printed = <<IfConditionReport>>

\* the statement ended in an error reported as a Type error
TypeErrorReported ==
    /\ last.res = "Error"
    /\ last.printed # <<>>
    /\ last.printed[Len(last.printed)].error_type = "Type error"

\* C14: a while statement evaluates its condition before every iteration
\* and the condition must be a Boolean each time: a condition that
\* evaluates to a non-Boolean value, on the first or on any later
\* iteration, is a Type error rather than a silent end of the loop.
C14_WhileConditionBoolean ==
    (/\ last.statement \in {Describe("While", 2, ""), Describe("While", 4, "")}
     /\ get(last.before, "a") # <<>>) =>
        LET a == get(last.before, "a")[1]
        IN  CASE a.tag # "Boolean" -> TypeErrorReported /\ last.assigns = <<>>
              [] a = Boolean(FALSE) -> last.res = "Ok" /\ last.assigns = <<>>
              [] last.statement.table = 2 ->
                    \* while a { a = false }: one iteration, then false
                    /\ last.res = "Ok"
                    /\ Len(last.assigns) = 1
                    /\ get(scopes, "a") = <<Boolean(FALSE)>>
              [] OTHER ->
                    \* while a { a = empty }: the second condition is an
                    \* empty Boolean
                    /\ Len(last.assigns) = 1
                    /\ TypeErrorReported

\* `while a { a = empty }` has run with a = true: after one iteration a is
\* the empty Boolean and the loop has ended with Ok and nothing reported
C14_LoopEndsSilently ==
    /\ last.statement = Describe("While", 4, "")
    /\ get(last.before, "a") = <<Boolean(TRUE)>>
    /\ Len(last.assigns) = 1
    /\ get(scopes, "a") = <<EmptyBoolean>>
    /\ last.res = "Ok"
    /\ last.printed = <<>>

\* the names of `frames` that statement k assigned or declared
Touched(log) == {log[k].name : k \in DOMAIN log}

\* C15: the evaluator is fail-fast: when statement k of a program raises a
\* runtime or type error, interpret returns an error, no statement after k
\* and no remaining part of statement k is executed, and the bindings and
\* outputs produced by the statements before the error are kept, not rolled
\* back.
C15_FailFast ==
    [][/\ status = "err" => FALSE
       /\ (status = "running" /\ last'.res = "Error") =>
            /\ status' = "err"
            \* outputs: what was written stays, in order
            /\ Len(stdout') >= Len(stdout)
            /\ SubSeq(stdout', 1, Len(stdout)) = stdout
            \* bindings: every frame of before is still there with its names,
            \* a value differing only where statement k assigned it
            /\ Len(scopes') >= Len(scopes)
            /\ \A i \in DOMAIN scopes :
                 \A name \in DOMAIN scopes[i].map :
                    /\ name \in DOMAIN scopes'[i].map
                    /\ \/ scopes'[i].map[name] = scopes[i].map[name]
                       \/ name \in Touched(last'.assigns)
            \* { a = 2 \n out(a) \n g(2) \n out("after") }: what ran before
            \* the error stays done, what follows it is not run
            /\ last'.statement = Describe("Block", 11, "") =>
                 /\ \A k \in DOMAIN last'.printed : last'.printed[k].message # "after"
                 /\ (last'.assigns # <<>> /\ last'.assigns[1].res = "Ok"
                     /\ get(scopes, "a") # <<>>) =>
                       /\ get(scopes', "a") = <<Number(2)>>
                       /\ last'.printed[1].message = "2"
      ]_vars

\* a = 1 then { a = 2 \n out(a) \n g(2) \n out("after") } with g unbound:
\* interpret has returned an error, a is 2, "2" was written and not "after"
C15_ErrorAfterEffects ==
    /\ status = "err"
    /\ last.statement = Describe("Block", 11, "")
    /\ last.res = "Error"
    /\ get(last.before, "a") = <<Number(1)>>
    /\ get(last.before, "g") = <<>>
    /\ get(scopes, "a") = <<Number(2)>>
    /\ Len(last.printed) = 2
    /\ last.printed[1].message = "2"
    /\ last.printed[2].error_type = "Runtime error"

\* C16: on success interpret returns the rendering of the value of the last
\* top-level statement executed: for an expression statement its value, and
\* the empty string when the last statement is an assignment, block, if,
\* while or function declaration, regardless of the values of earlier
\* expression statements; an empty program returns the empty string.
C16_ResultOfLastStatement ==
    (status \in {"running", "ok"}) =>
        /\ count = 0 => result = ""
        /\ (count > 0 /\ last.statement.kind
              \in {"Assignment", "Block", "If", "While", "FunctionDeclaration"})
             => result = ""
        /\ (count > 0 /\ last.statement.kind = "Expr") =>
             /\ result = Display(last.value)
             \* a
             /\ last.statement.table = 1 =>
                  CASE get(last.before, "a") = <<Number(1)>> -> result = "1"
                    [] get(last.before, "a") = <<Boolean(TRUE)>> -> result = "true"
                    [] get(last.before, "a") = <<String("s")>> -> result = "s"
                    [] get(last.before, "a") = <<EmptyNumber>> -> result = ""
                    [] OTHER -> TRUE
             \* time
             /\ (last.statement.table = 5
                 /\ get(last.before, "time") = <<NativeFunction("time", <<>>)>>)
                  => result = "f time(0 arguments) { [native code] }"
             \* size("ab")
             /\ last.statement.table = 15 => result = "2"

\* interpret has returned Ok("") for `size("ab")` followed by `a = 1`: the
\* "2" of the first statement is not what is returned
C16_EarlierValueDropped ==
    /\ status = "ok"
    /\ count = 2
    /\ last.statement = Describe("Assignment", 1, "a")
    /\ stdout = <<>>
    /\ last.previous = "2"
    /\ last.res = "Ok"
    /\ result = ""

\* C17: when a runtime or type error occurs inside nested blocks or inside
\* a function call, every frame pushed by those blocks and calls is popped
\* before the error reaches the host: after interpret returns an error the
\* scope stack consists of the global frame only.
C17_ErrorPopsFrames ==
    (/\ status = "err"
     /\ last.res = "Error"
     /\ Len(last.before) = 1
     /\ last.statement.kind \in {"Block", "If", "While"} \/ last.entered > 0)
        => /\ Len(scopes) = 1
           /\ ~scopes[1].function

\* g(2), started from the global frame alone with g(n) { { n + true } }, has
\* failed in the block of the body: the frame of the call and the frame of
\* the block are still on the stack after interpret has returned the error
C17_FramesLeftAfterError ==
    /\ status = "err"
    /\ last.res = "Error"
    /\ Len(last.before) = 1
    /\ last.statement = Describe("Expr", 6, "")
    /\ last.entered = 1
    /\ Len(scopes) = 3
    /\ scopes[2].function /\ "n" \in DOMAIN scopes[2].map
    /\ scopes[3].function
    /\ last.printed[Len(last.printed)].error_type = "Type error"

\* a scope stack that is nonempty, on the global frame of construction
OnGlobalFrame(frames) ==
    /\ Len(frames) >= 1
    /\ ~frames[1].function
    /\ DOMAIN NewInterpreter[1].map \subseteq DOMAIN frames[1].map

\* C18: in every reachable state of the evaluator the scope stack is
\* nonempty and its bottom frame is the global frame created at
\* construction, with the function flag false: no sequence of block entries
\* and exits, calls, returns and errors pops more frames than were pushed.
C18_ScopeStackNonempty ==
    /\ OnGlobalFrame(scopes)
    /\ count > 0 =>
         /\ OnGlobalFrame(last.before)
         \* no statement leaves fewer frames than it found
         /\ Len(scopes) >= Len(last.before)
         \* the stack at every assignment, call, block exit and return
         /\ \A k \in DOMAIN last.assigns :
              /\ OnGlobalFrame(last.assigns[k].before)
              /\ OnGlobalFrame(last.assigns[k].after)
              /\ Len(last.assigns[k].before) >= Len(last.before)
         /\ \A k \in DOMAIN last.calls :
              /\ OnGlobalFrame(last.calls[k].before)
              /\ OnGlobalFrame(last.calls[k].bound)
              /\ OnGlobalFrame(last.calls[k].after)
              /\ Len(last.calls[k].after) >= Len(last.calls[k].before)
         /\ \A k \in DOMAIN last.blocks :
              /\ OnGlobalFrame(last.blocks[k].after)
              /\ Len(last.blocks[k].after) >= Len(last.before)
         /\ \A k \in DOMAIN last.returns : OnGlobalFrame(last.returns[k].before)

\* a block statement started from the global frame alone, in which a call
\* bound its arguments at least three frames up and completed, a return was
\* executed and a block was left: the global frame is the bottom of the stack
C18_AfterBlocksCallsAndReturn ==
    /\ last.statement.kind = "Block"
    /\ Len(last.before) = 1
    /\ last.calls # <<>>
    /\ last.returns # <<>>
    /\ last.blocks # <<>>
    /\ Len(last.calls[1].bound) >= 3
    /\ OnGlobalFrame(scopes)

(***************************************************************************)
(* The front end: Lexer (src/ilo/lexer/src/lib.rs) and Parser              *)
(* (src/ilo/parser/src/lib.rs).  A source is the sequence of its lexemes,  *)
(* the blanks between them left out; "\n" is the line break.               *)
(***************************************************************************)

\* Lexer::scan_token: the tokens of one or two characters
Symbols ==
    [lexeme \in {"\n", "{", "}", "(", ")", ",", "-", "!", "!=", "=", "==",
                 ">", ">=", "<", "<=", "+", "/", "*", "^", "%"} |->
        CASE lexeme = "\n" -> "EOL"
          [] lexeme = "{" -> "LeftBrace"
          [] lexeme = "}" -> "RightBrace"
          [] lexeme = "(" -> "LeftParen"
          [] lexeme = ")" -> "RightParen"
          [] lexeme = "," -> "Comma"
          [] lexeme = "-" -> "Minus"
          [] lexeme = "!" -> "Bang"
          [] lexeme = "!=" -> "BangEqual"
          [] lexeme = "=" -> "Equal"
          [] lexeme = "==" -> "EqualEqual"
          [] lexeme = ">" -> "Greater"
          [] lexeme = ">=" -> "GreaterEqual"
          [] lexeme = "<" -> "Less"
          [] lexeme = "<=" -> "LessEqual"
          [] lexeme = "+" -> "Plus"
          [] lexeme = "/" -> "Slash"
          [] lexeme = "*" -> "Star"
          [] lexeme = "^" -> "Caret"
          [] lexeme = "%" -> "Percent"]

\* Lexer::number: the number literals of the sources, with their values
NumberLiterals == [lexeme \in {"1", "2", "3"} |->
                     CASE lexeme = "1" -> 1 [] lexeme = "2" -> 2 [] lexeme = "3" -> 3]

\* Lexer::string: the string literals of the sources, with their contents
StringLiterals == [lexeme \in {"\"x\"", "\"ab\""} |->
                     CASE lexeme = "\"x\"" -> "x" [] lexeme = "\"ab\"" -> "ab"]

\* Lexer::identifier: the token type of a word
identifier(ident) ==
    CASE ident = "and" -> "And"
      [] ident = "ask" -> "Ask"
      [] ident = "boolean" -> "Boolean"
      [] ident = "break" -> "Break"
      [] ident = "cmd" -> "Cmd"
      [] ident = "continue" -> "Continue"
      [] ident = "default" -> "Default"
      [] ident = "delete" -> "Delete"
      [] ident = "else" -> "Else"
      [] ident = "empty" -> "Empty"
      [] ident = "f" -> "Function"
      [] ident = "false" -> "False"
      [] ident = "for" -> "For"
      [] ident = "if" -> "If"
      [] ident = "in" -> "In"
      [] ident = "keys" -> "Keys"
      [] ident = "match" -> "Match"
      [] ident = "number" -> "Number"
      [] ident = "or" -> "Or"
      [] ident = "out" -> "Out"
      [] ident = "return" -> "Return"
      [] ident = "size" -> "Size"
      [] ident = "string" -> "String"
      [] ident = "true" -> "True"
      [] ident = "while" -> "While"
      [] OTHER -> "Identifier"

\* Lexer::scan_token and add_token on one lexeme.  The token of a string
\* literal carries its contents, as TokenType::StringLiteral(string) does.
scan_token(lexeme) ==
    CASE lexeme \in DOMAIN Symbols -> Token(Symbols[lexeme], 0, lexeme)
      [] lexeme \in DOMAIN NumberLiterals ->
           Token("NumberLiteral", NumberLiterals[lexeme], lexeme)
      [] lexeme \in DOMAIN StringLiterals ->
           Token("StringLiteral", 0, StringLiterals[lexeme])
      [] OTHER -> Token(identifier(lexeme), 0, lexeme)

\* Lexer::scan_tokens: the tokens of the source, then EOF
scan_tokens(source) ==
    [k \in 1..(Len(source) + 1) |->
        IF k <= Len(source) THEN scan_token(source[k]) ELSE Token("EOF", 0, "")]

(***************************************************************************)
(* struct Parser: tokens, the index `current` of the next token (from 1),  *)
(* and the parsing errors reported so far.  A rule yields Ok(node) or      *)
(* Err(()) together with the parser it leaves.                             *)
(***************************************************************************)
\* `synchronized` observes Parser::synchronize: where each call started and
\* where it left the parser
NewParser(tokens) ==
    [tokens |-> tokens, current |-> 1, reported |-> <<>>, synchronized |-> <<>>]

Parsed(node, p) == [ok |-> TRUE, node |-> node, p |-> p]
Failed(p) == [ok |-> FALSE, node |-> <<>>, p |-> p]

\* Parser::peek, previous, is_at_end, advance, backtrack, next_is
peek(p) == p.tokens[p.current]
previous(p) == p.tokens[p.current - 1]
is_at_end(p) == peek(p).token_type = "EOF"
advance(p) == IF is_at_end(p) THEN p ELSE [p EXCEPT !.current = @ + 1]
backtrack(p) == IF p.current # 1 THEN [p EXCEPT !.current = @ - 1] ELSE p
next_is(p, token_type) == ~is_at_end(p) /\ peek(p).token_type = token_type

\* the condition of Parser::match_any; the caller advances
next_is_any(p, types) == \E token_type \in types : next_is(p, token_type)

\* Parser::report_parsing_error
report_parsing_error(p, message) == [p EXCEPT !.reported = Append(@, message)]

\* Parser::consume_or_report
consume_or_report(p, token_type, error_message) ==
    IF next_is(p, token_type) THEN Parsed(previous(advance(p)), advance(p))
    ELSE Failed(report_parsing_error(p, error_message))

\* Parser::consume_eol_or_report
consume_eol_or_report(p, error_message) ==
    IF peek(p).token_type = "EOF" \/ next_is(p, "EOL")
    THEN Parsed(<<>>, advance(p))
    ELSE Failed(report_parsing_error(p, error_message))

\* Parser::ignore_empty_lines: the parser at the next token that is no EOL
ignore_empty_lines(p) ==
    [p EXCEPT !.current =
        CHOOSE k \in p.current..Len(p.tokens) :
            /\ p.tokens[k].token_type # "EOL"
            /\ \A j \in p.current..(k - 1) : p.tokens[j].token_type = "EOL"]

\* Parser::synchronize: one token is skipped, then the tokens up to the end
\* of the line or to a token that starts a statement
synchronize(p) ==
    LET q == advance(p)
        stops(k) == \/ p.tokens[k].token_type = "EOF"
                    \/ p.tokens[k - 1].token_type = "EOL"
                    \/ p.tokens[k].token_type
                         \in {"Function", "For", "If", "While", "Return", "Match"}
        left == CHOOSE k \in q.current..Len(p.tokens) :
                    stops(k) /\ \A j \in q.current..(k - 1) : ~stops(j)
    IN  [q EXCEPT !.current = left,
                  !.synchronized = Append(@, [from |-> p.current, to |-> left])]

\* the statement list of a function body as the evaluator's Function value
\* holds it: its index in Bodies
BodyIndex(statements) ==
    IF \E i \in DOMAIN Bodies : Bodies[i] = statements
    THEN CHOOSE i \in DOMAIN Bodies : Bodies[i] = statements
    ELSE 0

RECURSIVE Rule(_, _, _)

\* the loop of Parser::or, and, equality, comparison, term, modulo, factor
\* and exponentiation: `expr` followed by operator and operand, repeated
binary_loop(operators, operand, expr, p) ==
    LET q == advance(p)
        right == Rule(operand, <<>>, q)
    IN  IF ~next_is_any(p, operators) THEN Parsed(expr, p)
        ELSE IF ~right.ok THEN right
        ELSE Rule("binary_loop",
                  <<operators, operand, Binary(expr, previous(q), right.node)>>,
                  right.p)

binary(operators, operand, p) ==
    LET expr == Rule(operand, <<>>, p)
    IN  IF ~expr.ok THEN expr
        ELSE Rule("binary_loop", <<operators, operand, expr.node>>, expr.p)

\* Parser::expression
expression(p) == Rule("or", <<>>, p)

\* Parser::or
or(p) == binary({"Or"}, "and", p)

\* Parser::and
and(p) == binary({"And"}, "equality", p)

\* Parser::equality
equality(p) == binary({"BangEqual", "EqualEqual"}, "comparison", p)

\* Parser::comparison
comparison(p) ==
    IF next_is(p, "Empty") THEN Parsed(Primary(previous(advance(p))), advance(p))
    ELSE binary({"GreaterEqual", "Greater", "LessEqual", "Less"}, "term", p)

\* Parser::term
term(p) == binary({"Minus", "Plus"}, "modulo", p)

\* Parser::modulo binding as tightly as Parser::factor
modulo_as_factor(p) == binary({"Percent", "Slash", "Star"}, "exponentiation", p)

\* Parser::modulo
modulo(p) == binary({"Percent"}, "factor", p)

\* Parser::factor
factor(p) == binary({"Slash", "Star"}, "exponentiation", p)

\* Parser::exponentiation
exponentiation(p) == binary({"Caret"}, "unary", p)

\* Parser::unary
unary(p) ==
    LET q == advance(p)
        expr == Rule("unary", <<>>, q)
    IN  IF ~next_is_any(p, {"Minus", "Bang"}) THEN Rule("call", <<>>, p)
        ELSE IF ~expr.ok THEN expr
        ELSE Parsed(Unary(previous(q), expr.node), expr.p)

\* the arguments of Parser::finish_call after the first
arguments_loop(arguments, p) ==
    LET argument == Rule("expression", <<>>, advance(p))
    IN  IF ~next_is(p, "Comma") THEN Parsed(arguments, p)
        ELSE IF ~argument.ok THEN argument
        ELSE Rule("arguments_loop", <<Append(arguments, argument.node)>>, argument.p)

\* Parser::finish_call
finish_call(expr, p) ==
    LET first == Rule("expression", <<>>, p)
        arguments ==
            IF next_is(p, "RightParen") THEN Parsed(<<>>, p)
            ELSE IF ~first.ok THEN first
            ELSE Rule("arguments_loop", <<<<first.node>>>>, first.p)
        closing_paren ==
            consume_or_report(arguments.p, "RightParen",
                "Expected a closing ')' after the "
                  \o (CASE Len(arguments.node) = 1 -> "argument"
                        [] Len(arguments.node) > 1 -> "arguments"
                        [] OTHER -> "opening '('"))
    IN  IF ~arguments.ok THEN arguments
        ELSE IF ~closing_paren.ok THEN closing_paren
        ELSE Parsed(Call(expr, arguments.node), closing_paren.p)

\* the loop of Parser::call
call_loop(expr, p) ==
    LET called == Rule("finish_call", <<expr>>, advance(p))
    IN  IF ~next_is(p, "LeftParen") THEN Parsed(expr, p)
        ELSE IF ~called.ok THEN called
        ELSE Rule("call_loop", <<called.node>>, called.p)

\* Parser::call
parser_call(p) ==
    LET expr == Rule("primary", <<>>, p)
    IN  IF ~expr.ok THEN expr ELSE Rule("call_loop", <<expr.node>>, expr.p)

\* Parser::primary
primary(p) ==
    LET q == advance(p)
        expr == Rule("expression", <<>>, q)
        closed == consume_or_report(expr.p, "RightParen",
                                    "Expected a closing ')' after expression")
        incorrect_lexeme == IF peek(p).lexeme = "\n" THEN "EOL" ELSE peek(p).lexeme
    IN  CASE next_is_any(p, {"False", "True"}) -> Parsed(Primary(previous(q)), q)
          [] peek(p).token_type \in {"StringLiteral", "NumberLiteral"} ->
               Parsed(Primary(previous(q)), q)
          [] peek(p).token_type = "Identifier" ->
               Parsed(Variable(previous(q).lexeme), q)
          [] next_is(p, "LeftParen") ->
               IF ~expr.ok THEN expr
               ELSE IF ~closed.ok THEN closed
               ELSE Parsed(Grouping(expr.node), closed.p)
          [] peek(p).token_type = "Empty" ->
               Failed(report_parsing_error(p,
                 "The 'empty' keyword can only be used in variable declarations or assignments"))
          [] OTHER ->
               Failed(report_parsing_error(p,
                 "Unexpected token '" \o incorrect_lexeme \o "'"))

\* Parser::empty_type, after the token `empty`
empty_type(p) ==
    LET q == advance(p)
        typed == advance(q)
        closed == consume_or_report(typed, "RightParen",
                    "Expected a closing ')' after empty variable assignment")
    IN  IF ~next_is(p, "LeftParen") THEN Parsed(Primary(previous(p)), p)
        ELSE IF ~next_is_any(q, {"Boolean", "Number"})
        THEN Failed(report_parsing_error(q,
               IF peek(q).token_type = "String"
               THEN "Empty string variables must be initialized with '\"\"'"
               ELSE "Empty variables must be initialized with 'empty(boolean)', 'empty(number)', or an empty string '\"\"'"))
        ELSE IF ~closed.ok THEN closed
        ELSE Parsed(Primary(previous(typed)), closed.p)

\* Parser::assign_statement, after the identifier, at the token `=`
assign_statement(p) ==
    LET ident == previous(p)
        q == advance(p)
        value == IF next_is(q, "Empty") THEN empty_type(advance(q))
                 ELSE Rule("expression", <<>>, q)
        eol == consume_eol_or_report(value.p, "Line must end after an assignment")
    IN  IF ~value.ok THEN value
        ELSE IF ~eol.ok THEN eol
        ELSE Parsed(Assignment(ident.lexeme, value.node), eol.p)

\* Parser::expression_statement
expression_statement(p) ==
    LET expr == Rule("expression", <<>>, p)
        eol == consume_eol_or_report(expr.p,
                 "Line must end after an expression statement")
    IN  IF ~expr.ok THEN expr
        ELSE IF ~eol.ok THEN eol
        ELSE Parsed(ExprStatement(expr.node), eol.p)

\* the loop of Parser::block_statement
block_loop(statements, p) ==
    LET next == Rule("statement", <<>>, p)
    IN  IF next_is(p, "RightBrace") \/ is_at_end(p) THEN Parsed(statements, p)
        ELSE IF next_is(p, "EOL") THEN Rule("block_loop", <<statements>>, advance(p))
        ELSE IF ~next.ok THEN next
        ELSE Rule("block_loop", <<Append(statements, next.node)>>, next.p)

\* Parser::block_statement, after the token `{`
block_statement(p) ==
    LET eol == consume_or_report(p, "EOL", "Expected new line after block start")
        statements == Rule("block_loop", <<<<>>>>, eol.p)
        closed == consume_or_report(statements.p, "RightBrace",
                    "Expected a closing '}' after block statement")
    IN  IF ~eol.ok THEN eol
        ELSE IF ~statements.ok THEN statements
        ELSE IF ~closed.ok THEN closed
        ELSE Parsed(statements.node, closed.p)

\* the statements of a block as Statement::Block
braced_block(p) ==
    LET statements == Rule("block_statement", <<>>, p)
    IN  IF ~statements.ok THEN statements
        ELSE Parsed(Block(statements.node), statements.p)

\* Parser::if_statement, after the token `if`
if_statement(p) ==
    LET condition == Rule("expression", <<>>, p)
        opened == consume_or_report(condition.p, "LeftBrace",
                    "Expected an opening '{' after the condition in an 'if' statement")
        then_branch == braced_block(opened.p)
        q == ignore_empty_lines(then_branch.p)
        after_else == advance(q)
        else_if == Rule("if_statement", <<>>, advance(after_else))
        else_opened == consume_or_report(after_else, "LeftBrace",
                         "Expected an opening '{' after the 'else' keyword")
        else_block == braced_block(else_opened.p)
        else_branch == CASE ~next_is(q, "Else") -> Parsed(<<>>, q)
                         [] next_is(after_else, "If") ->
                              IF else_if.ok THEN Parsed(<<else_if.node>>, else_if.p)
                              ELSE else_if
                         [] ~else_opened.ok -> else_opened
                         [] ~else_block.ok -> else_block
                         [] OTHER -> Parsed(<<else_block.node>>, else_block.p)
    IN  IF ~condition.ok THEN condition
        ELSE IF ~opened.ok THEN opened
        ELSE IF ~then_branch.ok THEN then_branch
        ELSE IF ~else_branch.ok THEN else_branch
        ELSE Parsed(If(condition.node, then_branch.node, else_branch.node),
                    else_branch.p)

\* Parser::while_statement, after the token `while`
while_statement(p) ==
    LET condition == Rule("expression", <<>>, p)
        opened == consume_or_report(condition.p, "LeftBrace",
                    "Expected an opening '{' after the condition in a 'while' statement")
        body == braced_block(opened.p)
    IN  IF ~condition.ok THEN condition
        ELSE IF ~opened.ok THEN opened
        ELSE IF ~body.ok THEN body
        ELSE Parsed(While(condition.node, body.node), body.p)

\* the parameters of Parser::function_statement after the first
parameters_loop(name, parameters, p) ==
    LET parameter == consume_or_report(advance(p), "Identifier",
                       "Expected parameter name for function " \o name)
    IN  IF ~next_is(p, "Comma") THEN Parsed(parameters, p)
        ELSE IF ~parameter.ok THEN parameter
        ELSE Rule("parameters_loop",
                  <<name, Append(parameters, parameter.node.lexeme)>>, parameter.p)

\* Parser::function_statement, after the token `f`
function_statement(p) ==
    LET name == consume_or_report(p, "Identifier", "Expected a function name")
        opened == consume_or_report(name.p, "LeftParen",
                    "Expected an opening '(' after the name of the function "
                      \o name.node.lexeme)
        first == consume_or_report(opened.p, "Identifier",
                   "Expected parameter name for function " \o name.node.lexeme)
        parameters ==
            IF next_is(opened.p, "RightParen") THEN Parsed(<<>>, opened.p)
            ELSE IF ~first.ok THEN first
            ELSE Rule("parameters_loop",
                      <<name.node.lexeme, <<first.node.lexeme>>>>, first.p)
        closed == consume_or_report(parameters.p, "RightParen",
                    "Expected a closing ')' after the "
                      \o (CASE Len(parameters.node) = 1 -> "parameter"
                            [] Len(parameters.node) > 1 -> "parameters"
                            [] OTHER -> "opening '('"))
        braced == consume_or_report(closed.p, "LeftBrace",
                    "Expected an opening '{' for the declaration of '"
                      \o name.node.lexeme \o "''s body")
        body == Rule("block_statement", <<>>, braced.p)
    IN  IF ~name.ok THEN name
        ELSE IF ~opened.ok THEN opened
        ELSE IF ~parameters.ok THEN parameters
        ELSE IF ~closed.ok THEN closed
        ELSE IF ~braced.ok THEN braced
        ELSE IF ~body.ok THEN body
        ELSE Parsed(FunctionDeclaration(name.node.lexeme, parameters.node,
                                        BodyIndex(body.node)), body.p)

\* Parser::statement
statement(p) ==
    LET q == advance(p)
    IN  CASE next_is(p, "Identifier") /\ peek(q).token_type = "Equal" ->
               assign_statement(q)
          [] next_is(p, "Identifier") -> expression_statement(p)
          [] next_is(p, "LeftBrace") -> braced_block(q)
          [] next_is(p, "If") -> Rule("if_statement", <<>>, q)
          [] next_is(p, "While") -> while_statement(q)
          [] next_is(p, "Function") -> function_statement(q)
          [] OTHER -> expression_statement(p)

\* the loop of Parser::parse giving up at the first statement that fails
parse_loop_stopping(statements, has_error, p) ==
    LET next == Rule("statement", <<>>, p)
    IN  IF is_at_end(p)
        THEN [ok |-> ~has_error, node |-> IF has_error THEN <<>> ELSE statements,
              p |-> p]
        ELSE IF next_is(p, "EOL")
        THEN Rule("parse_loop", <<statements, has_error>>, advance(p))
        ELSE IF next.ok
        THEN Rule("parse_loop", <<Append(statements, next.node), has_error>>, next.p)
        ELSE Failed(next.p)

\* the loop of Parser::parse: Ok(statements), or Err(()) once a statement
\* has failed, with the errors reported in p
parse_loop(statements, has_error, p) ==
    LET next == Rule("statement", <<>>, p)
    IN  IF is_at_end(p)
        THEN [ok |-> ~has_error, node |-> IF has_error THEN <<>> ELSE statements,
              p |-> p]
        ELSE IF next_is(p, "EOL")
        THEN Rule("parse_loop", <<statements, has_error>>, advance(p))
        ELSE IF next.ok
        THEN Rule("parse_loop", <<Append(statements, next.node), has_error>>, next.p)
        ELSE Rule("parse_loop", <<statements, TRUE>>, synchronize(next.p))

Rule(name, args, p) ==
    CASE name = "binary_loop" -> binary_loop(args[1], args[2], args[3], p)
      [] name = "expression" -> expression(p)
      [] name = "or" -> or(p)
      [] name = "and" -> and(p)
      [] name = "equality" -> equality(p)
      [] name = "comparison" -> comparison(p)
      [] name = "term" -> term(p)
      [] name = "modulo" -> modulo(p)
      [] name = "factor" -> factor(p)
      [] name = "exponentiation" -> exponentiation(p)
      [] name = "unary" -> unary(p)
      [] name = "call" -> parser_call(p)
      [] name = "call_loop" -> call_loop(args[1], p)
      [] name = "finish_call" -> finish_call(args[1], p)
      [] name = "arguments_loop" -> arguments_loop(args[1], p)
      [] name = "primary" -> primary(p)
      [] name = "statement" -> statement(p)
      [] name = "block_loop" -> block_loop(args[1], p)
      [] name = "block_statement" -> block_statement(p)
      [] name = "if_statement" -> if_statement(p)
      [] name = "parameters_loop" -> parameters_loop(args[1], args[2], p)
      [] name = "parse_loop" -> parse_loop(args[1], args[2], p)

\* Parser::parse on the tokens of Lexer::scan_tokens
parse(tokens) == Rule("parse_loop", <<<<>>, FALSE>>, NewParser(tokens))

(***************************************************************************)
(* One run of the host's `run` (src/ilo_cli/src/main.rs) on a source:      *)
(* scan_tokens, parse, then interpret on a new Interpreter.  `last` holds  *)
(* the source, its tokens, the outcome of parse and the Result of the      *)
(* statement executed last; status is "source", "tokens", then "running"   *)
(* while interpret has a next statement, and "ok" / "err" / "panic" at the *)
(* end.                                                                    *)
(***************************************************************************)
\* the words put in the place x of the sources
Operands == <<"out", "ask", "size", "cmd", "time", "empty", "a", "1", "true">>

\* the sources: the lexemes around the place x
Contexts(x) == <<
    <<x>>,
    <<x, "(", "\"x\"", ")">>,
    <<x, "(", ")">>,
    <<"a", "=", x>>,
    <<"a", "=", x, "(", "boolean", ")">>,
    <<"a", "=", x, "(", "number", ")">>,
    <<"a", "=", x, "==", "1">>,
    <<"f", "g", "(", "n", ")", "{", "\n", "n", "\n", "}", "\n", "g", "(", x, ")">>,
    <<"if", x, "{", "\n", "}">>,
    <<"while", x, "{", "\n", "}">>,
    <<x, "and", "true">>,
    <<"false", "or", x>>,
    <<x, "==", "1">>,
    <<"1", "==", x>>,
    <<"1", "!=", x>>,
    <<"1", "+", x>>,
    <<"-", x>>,
    <<x, "<", "1">>,
    <<"(", x, ")">>,
    <<"a", "=", "1", "\n", "a", "=", x>>,
    <<"a", "=", "1", "\n", "a", "==", x>>,
    <<x, "==", x>>
  >>

Sources == {Contexts(Operands[o])[c] : o \in DOMAIN Operands, c \in 1..22}

InitSource ==
    /\ scopes = NewInterpreter
    /\ stdout = <<>>
    /\ clock = 1
    /\ host = [input |-> "yes", output |-> "x"]
    /\ result = ""
    /\ status = "source"
    /\ count = 0
    /\ \E source \in Sources :
         last = [source |-> source, tokens |-> <<>>,
                 parsed |-> [ok |-> FALSE, statements |-> <<>>, reported |-> <<>>,
                             synchronized |-> <<>>],
                 res |-> "", value |-> Empty, printed |-> <<>>]

\* let tokens = lexer.scan_tokens()?
ScanTokens ==
    /\ status = "source"
    /\ status' = "tokens"
    /\ last' = [last EXCEPT !.tokens = scan_tokens(last.source)]
    /\ UNCHANGED <<scopes, stdout, clock, host, result, count>>

\* the outcome r of parser.parse(): Err(()) ends the run
ParsedAs(r) ==
    /\ status' = CASE ~r.ok -> "err"
                   [] r.node = <<>> -> "ok"
                   [] OTHER -> "running"
    /\ last' = [last EXCEPT !.parsed = [ok |-> r.ok, statements |-> r.node,
                                        reported |-> r.p.reported,
                                        synchronized |-> r.p.synchronized]]
    /\ UNCHANGED <<scopes, stdout, clock, host, result, count>>

\* let statements = parser.parse()?
Parse ==
    /\ status = "tokens"
    /\ ParsedAs(parse(last.tokens))

\* one iteration of the loop of Interpreter::interpret on the parsed
\* statements: r is the Result of execute
ExecutedParsed(r) ==
    /\ r.res \notin {"OutOfFuel", "Unmodelled"}
    /\ scopes' = r.st.scopes
    /\ stdout' = r.st.stdout
    /\ clock' = r.st.clock
    /\ result' = interpret_result(result, r)
    /\ status' = CASE r.res = "Ok" /\ count + 1 < Len(last.parsed.statements) -> "running"
                   [] r.res = "Ok" -> "ok"
                   [] r.res = "Panic" -> "panic"
                   [] OTHER -> "err"
    /\ last' = [last EXCEPT !.res = r.res, !.value = r.value,
                            !.printed = SubSeq(r.st.stdout, Len(stdout) + 1,
                                               Len(r.st.stdout))]
    /\ count' = count + 1
    /\ UNCHANGED host

InterpretParsed ==
    /\ status = "running"
    /\ count < Len(last.parsed.statements)
    /\ ExecutedParsed(Invoke("execute", <<last.parsed.statements[count + 1]>>,
                             NewState(scopes, stdout, clock, host)))

NextSource == ScanTokens \/ Parse \/ InterpretParsed

SpecSource == InitSource /\ [][NextSource]_vars

\* the names of the native functions of Interpreter::new
Natives == {"out", "ask", "size", "cmd", "time"}

\* parse has returned, for the source in `last`
AfterParse == status \notin {"source", "tokens"}

\* C19: the native functions are reachable by name from source text: for
\* each of out, ask, size, cmd and time, a source such as out("x") or a bare
\* `out` lexes and parses without error to a reference to that name, and
\* evaluates to a call of, or to the value of, the native function
\* registered in the global frame.
C19_NativesByName ==
    \A name \in Natives :
        \* the bare name
        /\ (AfterParse /\ last.source = <<name>>) =>
              /\ last.parsed.ok
              /\ last.parsed.reported = <<>>
              /\ last.parsed.statements = <<ExprStatement(Variable(name))>>
              /\ status \in {"running", "ok"}
              /\ status = "ok" =>
                   /\ last.value = get(NewInterpreter, name)[1]
                   /\ last.value.tag = "NativeFunction"
        \* the call, of as many arguments as the function takes
        /\ (/\ AfterParse
            /\ last.source = IF name = "time" THEN <<name, "(", ")">>
                             ELSE <<name, "(", "\"x\"", ")">>) =>
              /\ last.parsed.ok
              /\ last.parsed.reported = <<>>
              /\ last.parsed.statements =
                   <<ExprStatement(Call(Variable(name),
                       IF name = "time" THEN <<>> ELSE <<Str("x")>>))>>
              /\ status \in {"running", "ok"}
              /\ status = "ok" =>
                   CASE name = "out" ->
                          /\ last.value = Empty
                          /\ stdout = <<[error_type |-> "", message |-> "x"]>>
                     [] name = "ask" -> last.value = String(host.input)
                     [] name = "size" -> last.value = Number(1)
                     [] name = "cmd" -> last.value = String(host.output)
                     [] name = "time" -> last.value = Number(1) /\ clock = 2

\* out("x") has been lexed and parsed: `out` is the keyword token Out, no
\* rule of the parser takes it, and parse has returned Err(()) on
\* "Unexpected token 'out'"
C19_OutIsUnexpectedToken ==
    /\ status = "err"
    /\ last.source = <<"out", "(", "\"x\"", ")">>
    /\ last.tokens[1].token_type = "Out"
    /\ ~last.parsed.ok
    /\ last.parsed.reported = <<"Unexpected token 'out'">>
    /\ count = 0
    /\ stdout = <<>>

\* time() has been lexed, parsed and run: `time` is an Identifier, and the
\* call of the native function has returned the clock
C19_TimeCalled ==
    /\ status = "ok"
    /\ last.source = <<"time", "(", ")">>
    /\ last.tokens[1].token_type = "Identifier"
    /\ last.parsed.statements = <<ExprStatement(Call(Variable("time"), <<>>))>>
    /\ last.value = Number(1)

\* the sources in which the claim takes `empty`: as the whole right-hand
\* side of an assignment, bare or typed, and as an operand of == or !=
EmptyAccepted == {4, 5, 6, 20} \cup {13, 14, 15, 21, 22}

\* the sources in which `empty` stands in another position: an expression
\* statement, a callee, a call argument, a condition of if or while, an
\* operand of and, or, +, unary - and <, a grouping
EmptyRejected == {1, 2, 3, 8, 9, 10, 11, 12, 16, 17, 18, 19}

\* C20: the parser accepts the token `empty` only as the whole right-hand
\* side of an assignment (optionally followed by (boolean) or (number)) or
\* as an operand of == or !=; in every other position -- alone as an
\* expression statement, as a call argument, as an if or while condition,
\* as an operand of and / or -- parsing reports a syntax error and returns
\* Err.
C20_EmptyOnlyInAssignmentOrEquality ==
    /\ \A c \in EmptyAccepted :
         (AfterParse /\ last.source = Contexts("empty")[c]) =>
            /\ last.parsed.ok
            /\ last.parsed.reported = <<>>
    /\ \A c \in EmptyRejected :
         (AfterParse /\ last.source = Contexts("empty")[c]) =>
            /\ ~last.parsed.ok
            /\ last.parsed.reported # <<>>
            /\ status = "err"
            /\ count = 0
    /\ (AfterParse /\ last.source = <<"a", "=", "empty">>) =>
         last.parsed.statements = <<Assignment("a", EmptyLiteral)>>
    /\ (AfterParse /\ last.source = <<"a", "=", "empty", "(", "boolean", ")">>) =>
         last.parsed.statements = <<Assignment("a", EmptyOf("Boolean"))>>
    /\ (AfterParse /\ last.source = <<"a", "=", "empty", "(", "number", ")">>) =>
         last.parsed.statements = <<Assignment("a", EmptyOf("Number"))>>
    /\ (AfterParse /\ last.source = <<"1", "!=", "empty">>) =>
         last.parsed.statements =
            <<ExprStatement(Binary(Num(1), Token("BangEqual", 0, "!="), EmptyLiteral))>>

\* the source `empty` has been parsed and run: Parser::comparison took the
\* token, the statement is the expression `empty`, and interpret has
\* returned Ok("")
C20_BareEmptyAccepted ==
    /\ status = "ok"
    /\ last.source = <<"empty">>
    /\ last.parsed.ok
    /\ last.parsed.reported = <<>>
    /\ last.parsed.statements = <<ExprStatement(EmptyLiteral)>>
    /\ last.value = Empty
    /\ result = ""

(***************************************************************************)
(* Parser::parse alone on sources of two lines, of operator chains and of  *)
(* return statements: scan_tokens, then parse.                             *)
(***************************************************************************)
\* lines that parse to one statement each
GoodLines == <<
    <<"1">>,
    <<"a", "=", "1">>,
    <<"time", "(", ")">>,
    <<"a", "==", "empty">>
  >>

\* lines on which Parser::statement fails
BadLines == <<
    <<"1", "+">>,
    <<")">>,
    <<"a", "=", "1", "2">>,
    <<"out">>,
    <<"if", "true">>,
    <<"a", "=", "empty", "(", "string", ")">>
  >>

Lines == {GoodLines[i] : i \in DOMAIN GoodLines} \cup {BadLines[i] : i \in DOMAIN BadLines}

\* a line; a line and the line break; two lines
LineSources ==
    Lines \cup {l \o <<"\n">> : l \in Lines}
          \cup {l1 \o <<"\n">> \o l2 : l1 \in Lines, l2 \in Lines}

\* the binary operators, as written
BinaryOperators ==
    {"or", "and", "==", "!=", "<", ">", "<=", ">=", "+", "-", "%", "*", "/", "^"}

UnaryOperators == {"-", "!"}

\* chains of two binary operators, and a unary operator or a call at either
\* operand of a binary operator
ChainSources ==
    {<<"a", o1, "b", o2, "c">> : o1 \in BinaryOperators, o2 \in BinaryOperators}
      \cup {<<u, "a", o, "b">> : u \in UnaryOperators, o \in BinaryOperators}
      \cup {<<"a", o, u, "b">> : u \in UnaryOperators, o \in BinaryOperators}
      \cup {<<u, "g", "(", "a", ")", o, "b">> :
               u \in UnaryOperators, o \in BinaryOperators}

\* `return 1` at top level, inside a block and inside a function body
ReturnSources == <<
    <<"return", "1">>,
    <<"return", "1", "\n">>,
    <<"{", "\n", "return", "1", "\n", "}">>,
    <<"f", "g", "(", ")", "{", "\n", "return", "1", "\n", "}">>
  >>

\* the sources of parse alone
ParseSources ==
    LineSources \cup ChainSources \cup {ReturnSources[i] : i \in DOMAIN ReturnSources}

InitParse ==
    /\ scopes = NewInterpreter
    /\ stdout = <<>>
    /\ clock = 1
    /\ host = [input |-> "yes", output |-> "x"]
    /\ result = ""
    /\ status = "source"
    /\ count = 0
    /\ \E source \in ParseSources :
         last = [source |-> source, tokens |-> <<>>,
                 parsed |-> [ok |-> FALSE, statements |-> <<>>, reported |-> <<>>,
                             synchronized |-> <<>>],
                 res |-> "", value |-> Empty, printed |-> <<>>]

NextParse == ScanTokens \/ Parse

SpecParse == InitParse /\ [][NextParse]_vars

\* the statement a good line parses to
GoodStatements == <<
    ExprStatement(Num(1)),
    Assignment("a", Num(1)),
    ExprStatement(Call(Variable("time"), <<>>)),
    ExprStatement(Binary(Variable("a"), Token("EqualEqual", 0, "=="), EmptyLiteral))
  >>

\* the statements the good lines among `lines` parse to, in order
StatementsOf(lines) ==
    LET good(l) == \E i \in DOMAIN GoodLines : GoodLines[i] = l
        one(l) == IF good(l)
                  THEN <<GoodStatements[CHOOSE i \in DOMAIN GoodLines : GoodLines[i] = l]>>
                  ELSE <<>>
    IN  IF Len(lines) = 1 THEN one(lines[1]) ELSE one(lines[1]) \o one(lines[2])

\* what the claim says of parse on a source made of `lines`
ParsedLines(lines) ==
    LET expected == StatementsOf(lines)
        failed == Len(lines) - Len(expected)
    IN  /\ last.parsed.ok <=> failed = 0
        \* Ok carries every statement, Err none
        /\ last.parsed.statements = IF failed = 0 THEN expected ELSE <<>>
        /\ status = IF failed = 0 THEN "running" ELSE "err"
        \* every failed statement is reported and synchronized on, the later
        \* one as well as the earlier
        /\ Len(last.parsed.reported) = failed
        /\ Len(last.parsed.synchronized) = failed
        \* synchronize moves on by one token at least, unless parse is at EOF
        /\ \A k \in DOMAIN last.parsed.synchronized :
             LET s == last.parsed.synchronized[k]
             IN  /\ s.to <= Len(last.tokens)
                 /\ s.to > s.from \/ last.tokens[s.from].token_type = "EOF"
                 /\ k > 1 => s.from >= last.parsed.synchronized[k - 1].to

Precedence(operator) ==
    CASE operator = "or" -> 1
      [] operator = "and" -> 2
      [] operator \in {"==", "!="} -> 3
      [] operator \in {"<", ">", "<=", ">="} -> 4
      [] operator \in {"+", "-"} -> 5
      [] operator = "%" -> 6
      [] operator \in {"*", "/"} -> 7
      [] operator = "^" -> 8

\* the one statement parse has returned
ParsedExpression(expr) ==
    /\ last.parsed.ok
    /\ last.parsed.reported = <<>>
    /\ last.parsed.statements = <<ExprStatement(expr)>>

\* C22: for every chain of binary operators the parser builds the tree
\* dictated by the precedence order (low to high) or, and, == !=, < > <= >=,
\* + -, %, * /, ^, unary - and !, call, primary, with every binary operator
\* left-associative: a - b - c is (a - b) - c, a ^ b ^ c is (a ^ b) ^ c,
\* a % b * c is a % (b * c), and -a ^ b is (-a) ^ b.
C22_PrecedenceAndAssociativity ==
    AfterParse =>
        /\ \A o1 \in BinaryOperators, o2 \in BinaryOperators :
             last.source = <<"a", o1, "b", o2, "c">> =>
                ParsedExpression(
                    IF Precedence(o2) > Precedence(o1)
                    THEN Binary(Variable("a"), scan_token(o1),
                                Binary(Variable("b"), scan_token(o2), Variable("c")))
                    ELSE Binary(Binary(Variable("a"), scan_token(o1), Variable("b")),
                                scan_token(o2), Variable("c")))
        /\ \A u \in UnaryOperators, o \in BinaryOperators :
             /\ last.source = <<u, "a", o, "b">> =>
                  ParsedExpression(Binary(Unary(scan_token(u), Variable("a")),
                                          scan_token(o), Variable("b")))
             /\ last.source = <<"a", o, u, "b">> =>
                  ParsedExpression(Binary(Variable("a"), scan_token(o),
                                          Unary(scan_token(u), Variable("b"))))
             /\ last.source = <<u, "g", "(", "a", ")", o, "b">> =>
                  ParsedExpression(
                    Binary(Unary(scan_token(u),
                                 Call(Variable("g"), <<Variable("a")>>)),
                           scan_token(o), Variable("b")))

\* a % b * c has been parsed to a % (b * c)
C22_ModuloBelowFactor ==
    /\ last.source = <<"a", "%", "b", "*", "c">>
    /\ last.parsed.ok
    /\ last.parsed.statements =
         <<ExprStatement(
             Binary(Variable("a"), Token("Percent", 0, "%"),
                    Binary(Variable("b"), Token("Star", 0, "*"), Variable("c"))))>>

(***************************************************************************)
(* struct Lexer as an object: the source, the tokens pushed so far and the *)
(* offset `current` (in lexemes) of the next one to scan.  scan_tokens     *)
(* takes &mut self, so it can be called again on the same Lexer.           *)
(***************************************************************************)
\* Lexer::new
NewLexer(source) == [source |-> source, tokens |-> <<>>, current |-> 0]

\* Lexer::scan_tokens on a Lexer: the loop scans from `current` to the end
\* of the source, EOF is pushed on self.tokens, and self.tokens.clone() is
\* returned
Lexer_scan_tokens(lexer) ==
    LET left == Len(lexer.source) - lexer.current
        scanned == [k \in 1..left |-> scan_token(lexer.source[lexer.current + k])]
        tokens == (lexer.tokens \o scanned) \o <<Token("EOF", 0, "")>>
    IN  [lexer |-> [lexer EXCEPT !.tokens = tokens, !.current = Len(lexer.source)],
         tokens |-> tokens]

InitScan ==
    /\ scopes = NewInterpreter
    /\ stdout = <<>>
    /\ clock = 1
    /\ host = [input |-> "yes", output |-> "x"]
    /\ result = ""
    /\ status = "source"
    /\ count = 0
    /\ \E source \in ParseSources :
         last = [source |-> source, lexer |-> NewLexer(source),
                 first |-> <<>>, second |-> <<>>]

\* lexer.scan_tokens() on the new Lexer
ScanFirst ==
    /\ status = "source"
    /\ status' = "scanned"
    /\ last' = [last EXCEPT !.lexer = Lexer_scan_tokens(last.lexer).lexer,
                            !.first = Lexer_scan_tokens(last.lexer).tokens]
    /\ UNCHANGED <<scopes, stdout, clock, host, result, count>>

\* lexer.scan_tokens() once more on the same Lexer
ScanAgain ==
    /\ status = "scanned"
    /\ status' = "rescanned"
    /\ last' = [last EXCEPT !.lexer = Lexer_scan_tokens(last.lexer).lexer,
                            !.second = Lexer_scan_tokens(last.lexer).tokens]
    /\ UNCHANGED <<scopes, stdout, clock, host, result, count>>

\* Lexer::new(source).scan_tokens() on the same source
ScanFresh ==
    /\ status = "scanned"
    /\ status' = "fresh"
    /\ last' = [last EXCEPT !.second = Lexer_scan_tokens(NewLexer(last.source)).tokens]
    /\ UNCHANGED <<scopes, stdout, clock, host, result, count>>

NextScan == ScanFirst \/ ScanAgain \/ ScanFresh

SpecScan == InitScan /\ [][NextScan]_vars

\* a token list that ends in EOF and holds no other EOF
OneEOF(tokens) ==
    /\ tokens # <<>>
    /\ \A k \in DOMAIN tokens : tokens[k].token_type = "EOF" <=> k = Len(tokens)

\* C23: scanning is deterministic and repeatable: scanning the same lexable
\* source twice -- with a fresh Lexer, or by calling scan_tokens a second
\* time on the same Lexer -- yields identical token lists, each ending in
\* exactly one EOF token.
C23_ScanRepeatable ==
    /\ status # "source" =>
         /\ OneEOF(last.first)
         /\ last.first = scan_tokens(last.source)
    /\ status \in {"rescanned", "fresh"} =>
         /\ last.second = last.first
         /\ OneEOF(last.second)

\* scan_tokens has been called twice on the Lexer of the source `1`: the
\* second list is the first with one more EOF
C23_SecondScanAddsEOF ==
    /\ status = "rescanned"
    /\ last.source = <<"1">>
    /\ last.first = <<Token("NumberLiteral", 1, "1"), Token("EOF", 0, "")>>
    /\ last.second = <<Token("NumberLiteral", 1, "1"), Token("EOF", 0, ""),
                       Token("EOF", 0, "")>>

\* a fresh Lexer has scanned a + b * c again: the same tokens, one EOF
C23_FreshScanIdentical ==
    /\ status = "fresh"
    /\ last.source = <<"a", "+", "b", "*", "c">>
    /\ last.second = last.first
    /\ Len(last.second) = 6
    /\ OneEOF(last.second)


(***************************************************************************)
(* Native names in inner scopes.                                           *)
(***************************************************************************)
\* the assignment of a.assigns made inside a block or function body to a name
\* that only the global frame binds, to a native function
AssignsToNative(a) ==
    /\ a.by = "assignment"
    /\ Len(a.before) > 1
    /\ Binders(a.before, a.name) = {1}
    /\ a.before[1].map[a.name].tag = "NativeFunction"

\* C24: user code cannot shadow a native function's name by assignment in an
\* inner scope: inside a block or a function body an assignment to a native
\* name such as time resolves to the native binding of the global frame, so a
\* value of another type is refused with a Type error, creates no binding in
\* the inner frame and leaves the native binding intact.
C24_AssignmentReachesNative ==
    /\ \A i \in DOMAIN last.assigns :
         LET a == last.assigns[i]
         IN  (/\ AssignsToNative(a)
              /\ a.value.tag # "Empty"
              /\ get_type(a.value) # get_type(a.before[1].map[a.name])) =>
               /\ a.res = "InvalidType"
               /\ a.after = a.before
    /\ (/\ last.statement = Describe("Block", 7, "")
        /\ get(last.before, "time") = <<NativeFunction("time", <<>>)>>) =>
          /\ last.res = "Error"
          /\ Len(last.printed) = 1
          /\ last.printed[1].error_type = "Type error"
          /\ get(scopes, "time") = <<NativeFunction("time", <<>>)>>

\* { time = 1 ... } has run while time was the native function: the
\* assignment was refused, the block's frame binds nothing and time is still
\* the native function
C24_AssignmentRefused ==
    /\ last.statement = Describe("Block", 7, "")
    /\ get(last.before, "time") = <<NativeFunction("time", <<>>)>>
    /\ last.res = "Error"
    /\ Len(last.assigns) = 1
    /\ AssignsToNative(last.assigns[1])
    /\ last.assigns[1].res = "InvalidType"
    /\ DOMAIN scopes[Len(scopes)].map = {}
    /\ get(scopes, "time") = <<NativeFunction("time", <<>>)>>

\* C24 as stated: inside a block, assigning a value of any type to a native
\* name succeeds, creates the binding in the inner frame and leaves the
\* native binding of the global frame intact.
C24_ShadowsNativeInInnerScope ==
    \A i \in DOMAIN last.assigns :
        LET a == last.assigns[i]
        IN  (/\ AssignsToNative(a)
             /\ a.value.tag \in {"Boolean", "Number", "String",
                                 "EmptyBoolean", "EmptyNumber"}) =>
              /\ a.res = "Ok"
              /\ a.name \in DOMAIN a.after[Len(a.after)].map
              /\ a.after[Len(a.after)].map[a.name] = a.value
              /\ a.after[1] = a.before[1]


(***************************************************************************)
(* The return statement in the parser.                                     *)
(***************************************************************************)
\* the statements the claim gives to the sources of ReturnSources: the Return
\* statement that Interpreter::execute matches, at the place of the source
ReturnStatements == <<
    <<Return(Num(1))>>,
    <<Return(Num(1))>>,
    <<Block(<<Return(Num(1))>>)>>,
    <<FunctionDeclaration("g", <<>>, 8)>>
  >>

\* C25: the parser accepts the statement form `return expr EOL` at top level,
\* inside blocks and inside function bodies, and produces a Return statement
\* carrying expr.
C25_ReturnStatementParsed ==
    AfterParse =>
        \A i \in DOMAIN ReturnSources :
            last.source = ReturnSources[i] =>
                /\ last.parsed.ok
                /\ last.parsed.reported = <<>>
                /\ last.parsed.statements = ReturnStatements[i]

\* `return 1` has been parsed at top level: parse has returned Err with the
\* keyword reported as an unexpected token
C25_ReturnIsUnexpectedToken ==
    /\ status = "err"
    /\ last.source = <<"return", "1">>
    /\ ~last.parsed.ok
    /\ last.parsed.reported = <<"Unexpected token 'return'">>
    /\ last.parsed.statements = <<>>


(***************************************************************************)
(* Which frames a function body reaches.                                   *)
(***************************************************************************)
\* the index of the topmost function frame of `frames` (the frame of the call
\* being executed), 0 outside of every call
FunctionFrame(frames) ==
    Max({0} \cup {k \in DOMAIN frames : frames[k].function})

\* every user function bound in `frames` is bound in the global frame, so
\* that the global frame is all that was visible where it was declared
DeclaredGlobally(frames) ==
    \A k \in DOMAIN frames : \A n \in DOMAIN frames[k].map :
        frames[k].map[n].tag = "Function" => k = 1

\* the frames of the callers of the call being executed: the block frames and
\* function frames between the global frame and the frame of the call
CallerLocal(frames) == {k \in DOMAIN frames : 1 < k /\ k < FunctionFrame(frames)}

\* C26: name resolution is lexical: inside the body of a user function an
\* assignment to a name that is not a parameter or local of the function
\* cannot update a binding that exists only in a block frame or function
\* frame of the caller, and a read of such a name resolves only to the
\* bindings visible where the function was declared (for the functions of
\* the tables, all declared at top level: the global frame).
C26_LexicalResolution ==
    /\ \A i \in DOMAIN last.assigns :
         LET a == last.assigns[i]
         IN  (/\ a.by = "assignment"
              /\ DeclaredGlobally(a.before)
              /\ Binders(a.before, a.name) # {}) =>
               Max(Binders(a.before, a.name)) \notin CallerLocal(a.before)
    \* g(n) { return b }
    /\ \A i \in DOMAIN last.calls :
         LET c == last.calls[i]
         IN  (c.body = 10 /\ DeclaredGlobally(c.before)) =>
               /\ "b" \in DOMAIN c.before[1].map
               /\ c.value = c.before[1].map["b"]

\* { a = 2 \n out(a) \n g(2) \n out("after") } has run with g(n) { n = 9 \n
\* a = n }: the assignment in the body of g has set the a of the caller's
\* block frame to 9
C26_CallerLocalUpdated ==
    /\ last.statement = Describe("Block", 11, "")
    /\ last.res = "Ok"
    /\ get(last.before, "a") = <<>>
    /\ \E i \in DOMAIN last.assigns :
         LET a == last.assigns[i]
         IN  /\ a.by = "assignment"
             /\ a.name = "a"
             /\ Len(a.before) = 3
             /\ a.before[3].function
             /\ Binders(a.before, "a") = {2}
             /\ a.before[2].map["a"] = Number(2)
             /\ a.res = "Ok"
             /\ a.after[2].map["a"] = Number(9)
             /\ "a" \notin DOMAIN a.after[3].map


(***************************************************************************)
(* Binding the parameters of a call.                                       *)
(***************************************************************************)
\* C27: binding the parameters on entry to a user function never fails: for
\* every argument value an expression can evaluate to, untyped Empty
\* included, define_or_assign(param, value, true) returns Ok, so that the
\* unwrap in call is never reached with an error.
C27_BindingParametersSucceeds ==
    \A i \in DOMAIN last.assigns :
        LET a == last.assigns[i]
        IN  a.by = "argument" =>
              /\ a.function_arg
              /\ a.res = "Ok"
              /\ last.res # "Panic"

\* g(out(1)) has been called with g a function of one parameter: out has
\* printed 1 and returned untyped Empty, define_or_assign has refused it as
\* the value of the parameter and the unwrap has panicked
C27_EmptyArgumentPanics ==
    /\ last.statement = Describe("Expr", 10, "")
    /\ last.res = "Panic"
    /\ status = "panic"
    /\ last.printed = <<[error_type |-> "", message |-> "1"]>>
    /\ Len(last.assigns) = 1
    /\ last.assigns[1].by = "argument"
    /\ last.assigns[1].function_arg
    /\ last.assigns[1].value = Empty
    /\ last.assigns[1].res = "EmptyDeclarationNoType"
    /\ Len(last.assigns[1].before) = Len(last.before) + 1


(***************************************************************************)
(* The values the environment stores.                                      *)
(***************************************************************************)
\* the variants of enum Value that Value::get_type gives a type
TypedTags ==
    {"Boolean", "Number", "String", "EmptyBoolean", "EmptyNumber",
     "Function", "NativeFunction"}

\* no frame of `frames` binds a name to untyped Empty
NoUntypedEmpty(frames) ==
    \A k \in DOMAIN frames : \A n \in DOMAIN frames[k].map :
        frames[k].map[n].tag \in TypedTags

\* C28: in every reachable state no frame of the environment binds a name to
\* the untyped Empty value: every stored value is a Boolean, Number, String,
\* EmptyBoolean, EmptyNumber, Function or NativeFunction (also in the
\* environments between the steps of a statement), so that the get_type of
\* define_or_assign is never applied to untyped Empty.
C28_NoUntypedEmptyStored ==
    /\ NoUntypedEmpty(scopes)
    /\ \A i \in DOMAIN last.assigns :
         LET a == last.assigns[i]
             binders == Binders(a.before, a.name)
             current_value == a.before[Max(binders)].map[a.name]
             new_value == IF a.value = Empty THEN as_empty(current_value) ELSE a.value
         IN  /\ NoUntypedEmpty(a.before)
             /\ NoUntypedEmpty(a.after)
             /\ (~a.function_arg /\ binders # {} /\ a.res # "Panic") =>
                  /\ current_value.tag \in TypedTags
                  /\ new_value.tag \in TypedTags
    /\ \A i \in DOMAIN last.calls : NoUntypedEmpty(last.calls[i].bound)

\* a = empty has been assigned at top level while a was the number 1: the
\* untyped Empty was resolved against the binding and EmptyNumber was stored
C28_EmptyResolvedOnStore ==
    /\ last.statement.kind = "Assignment"
    /\ Len(last.assigns) = 1
    /\ last.assigns[1].name = "a"
    /\ last.assigns[1].value = Empty
    /\ get(last.before, "a") = <<Number(1)>>
    /\ last.assigns[1].res = "Ok"
    /\ get(scopes, "a") = <<EmptyNumber>>


(***************************************************************************)
(* The types of the bindings.                                              *)
(***************************************************************************)
\* every name that frame k of `before` binds is bound in frame k of `after`
\* to a value of the same type, for every frame of `before`
TypesKept(before, after) ==
    /\ Len(after) >= Len(before)
    /\ \A k \in DOMAIN before : \A n \in DOMAIN before[k].map :
         /\ n \in DOMAIN after[k].map
         /\ TypeName(after[k].map[n]) = TypeName(before[k].map[n])

C30_NoUnreachableAssertion ==
    /\ \A i \in DOMAIN last.assigns :
         LET a == last.assigns[i]
         IN  /\ a.res \in {"Ok", "InvalidType", "EmptyDeclarationNoType"}
             /\ (/\ a.by = "assignment"
                 /\ a.value = Empty
                 /\ get(a.before, a.name) # <<>>
                 /\ get(a.before, a.name)[1].tag \in
                      {"String", "Function", "NativeFunction",
                       "EmptyBoolean", "EmptyNumber"}
                 /\ i = Len(last.assigns)) =>
                  last.res \in {"Ok", "Error"}
    /\ last.res = "Panic" =>
         \E i \in DOMAIN last.assigns :
             /\ last.assigns[i].by = "argument"
             /\ last.assigns[i].res = "EmptyDeclarationNoType"

\* a = empty has been executed with a bound to the string "s": as_empty has
\* run into its assertion and the interpreter has panicked, with a unchanged
C30_EmptyOverStringPanics ==
    /\ last.statement.kind = "Assignment"
    /\ last.statement.name = "a"
    /\ AssignmentValues[last.statement.table] = EmptyLiteral
    /\ get(last.before, "a") = <<String("s")>>
    /\ Len(last.assigns) = 1
    /\ last.assigns[1].res = "Panic"
    /\ last.res = "Panic"
    /\ status = "panic"
    /\ scopes = last.before

====
